---- MODULE Spec2Model ----
(***************************************************************************)
(* Submission queue and processor loop of the Turnitin bot.                *)
(*                                                                         *)
(* Threads call add_to_queue and start_immediate_processing; a pass is     *)
(* process_dynamic_batch_documents (upload) or download_pending_reports.   *)
(* The external site and the chat platform are nondeterministic: every     *)
(* outcome the code distinguishes is drawn with \E.                        *)
(*                                                                         *)
(* Time is a clock in seconds.  Strings that the code only tests for       *)
(* emptiness are modelled by a value and an empty marker.                  *)
(***************************************************************************)
EXTENDS Integers, Sequences, FiniteSets, TLC

\* ------------------------------------------------------------------ bounds
MaxItems == 1          \* add_to_queue calls in one behaviour
MaxTime == 120         \* the clock stops advancing here
TickStep == 120         \* seconds per Tick
MaxFailureCount == 5   \* failure_count is not driven beyond this
NumStudents == 1       \* students the upload page can list
NumAssignments == 1    \* assignment buckets ass01..
MaxForm == 1           \* form field sets the upload page can expose
BatchItems == 4        \* queued files of the single-pass specification
BatchStudents == 4     \* students listed in the single-pass specification
BatchForm == 4         \* form field sets in the single-pass specification
IntakeItems == 2       \* add_to_queue calls of the intake specification
RateStep == 43200      \* seconds per clock step of the rate-limit specification
RateMaxTime == 129600  \* its clock stops advancing here
RateMaxSubs == 4       \* submissions recorded per student in it
RateStudents == 2      \* students of its roster

Threads == {1, 2}
NoThread == 0

\* ------------------------------------------------------- program constants
BreakerThreshold == 5      \* failure_count >= 5
CooldownSeconds == 60      \* cooldown_time
RecentSeconds == 120       \* age_minutes < 2
PendingLimit == 5          \* get_pending_items(limit=5)
BatchCeiling == 8          \* min(max_students, 8)
DefaultMaxStudents == 8    \* max_students = 8 when student data is missing
StudentCap == 3            \* len(recent_submissions) < 3
WindowSeconds == 86400     \* hours_ago < 24
MaxLookups == 10           \* max_attempts of the assignment rotation
MaxSaveRetries == 3        \* max_save_retries of save_queue
TitleUserChars == 4        \* str(user_id)[-4:]
TitleTimeChars == 6        \* [-6:] of the stripped timestamp
TitleHashChars == 4        \* hexdigest()[:4]
TitleLimit == 14           \* the length the title is to stay within
SendMaxRetries == 3        \* max_retries of send_reports_to_user_queue
SendRetryDelay == 5        \* retry_delay, seconds
MaxSessionRetries == 3     \* max_retries of the session acquisition
SessionStaleSeconds == 30  \* a session idle this long may be taken over
MaxFileItems == 2          \* documents enqueued in the file-level specifications
MaxAdminCalls == 2         \* admin commands issued in the admin specification
SendItems == 2         \* queued files of the send specification
MaxSendFailures == 3   \* failing attempts of one send in the send specification
RecheckItems == 6      \* queued files of the re-check specification
RotateBuckets == 12        \* assignment buckets of the rotation specification
RotateStart == 2           \* its current_assignment starts at 1..RotateStart
SessionItems == 1          \* queued files of the session specification
SessionStep_Seconds == 30  \* seconds per SessionTick
SessionMaxTime == 60       \* the session specification's clock stops here
SessionFailures == 2       \* no pass starts at this failure_count
DefaultMaxWaitMinutes == 10   \* wait_for_similarity_scores(max_wait_minutes=10)
PollSeconds == 10          \* (max_wait_minutes * 60) // 10

NoTime == -1
NoTitle == <<>>
NoStudent == 0

VARIABLES
    queue,               \* submission_queue.json: the "queue" list
    processor_state,     \* queue_processor.processor_state
    processing_lock,     \* queue_processor._processing_lock: holder or NoThread
    student_tracking,    \* student_tracking.json
    current_assignment,  \* assignment_tracking.json: current_assignment
    now,                 \* datetime.now(), seconds
    nextId,              \* ordinal of the next uuid4 / enqueue instant
    pc,                  \* per thread: position in its call
    ctx,                 \* per thread: who started the running pass
    work,                \* per thread: in-memory item list of the pass
    idx,                 \* per thread: loop index into work
    buf,                 \* per thread: queue_data loaded and not yet saved
    loc,                 \* per thread: return values and what the pass met (EmptyLoc)
    sent,                \* what the bot delivered to the chats: <<item id, kind>>
    queue_file,          \* condition of submission_queue.json on disk
    temp_file,           \* queue_*.tmp of a running save_queue: <<>> or <<data>>
    queue_lock,          \* queue_manager.queue_lock: holder or NoThread
    browser_session      \* turnitin_auth.browser_session: owner and last activity

vars == <<queue, processor_state, processing_lock, student_tracking,
          current_assignment, now, nextId, pc, ctx, work, idx, buf, loc,
          sent, queue_file, temp_file, queue_lock, browser_session>>

\* ---------------------------------------------------------------- helpers
Min2(a, b) == IF a < b THEN a ELSE b

Min3(a, b, c) == Min2(a, Min2(b, c))

Prefix(s, n) == SubSeq(s, 1, Min2(n, Len(s)))

\* ------------------------------------------------------------ queue_manager
\* add_to_queue: the queue_item dictionary; timestamp is the ordinal of the
\* enqueue instant (datetime.now() is distinct for every call)
NewItem(id, user) ==
    [id |-> id, user_id |-> user, timestamp |-> id,
     status |-> "pending", assignment |-> 0, student_id |-> NoStudent,
     submission_title |-> NoTitle, similarity_score |-> FALSE,
     report_downloaded |-> FALSE, submitted_at |-> NoTime, error |-> FALSE]

\* conditions of submission_queue.json: ok = it holds {"queue": [...]},
\* missing, unreadable = open or flock raises OSError on every try,
\* corrupt = json.load raises, foreign = well-formed JSON without a "queue"
\* list
FileConditions == {"ok", "missing", "unreadable", "corrupt", "foreign"}

\* a variant of load_queue_result without the final `except Exception`
load_queue_result_NoCatch(f, q) ==
    [raised |-> f = "corrupt",
     has_queue |-> f # "foreign",
     queue |-> IF f = "ok" THEN q ELSE <<>>]

\* load_queue on a file in condition f that holds the list q: raised = an
\* exception leaves the call, has_queue = the returned document has a
\* "queue" list, queue = that list
load_queue_result(f, q) ==
    [raised |-> FALSE,
     has_queue |-> f # "foreign",
     queue |-> IF f = "ok" THEN q ELSE <<>>]

\* load_queue: the "queue" list of the document it returns
load_queue == load_queue_result(queue_file, queue).queue

IsPending(item) == item.status = "pending"

\* get_pending_items(limit=5) on loaded data
get_pending_items(q) == Prefix(SelectSeq(q, IsPending), PendingLimit)

IsAwaitingReport(item) == item.status = "submitted" /\ ~item.report_downloaded

\* get_submitted_items(limit=5) on loaded data
get_submitted_items(q) == Prefix(SelectSeq(q, IsAwaitingReport), PendingLimit)

\* get_pending_items() and get_submitted_items() as calls: the except
\* clause of each turns any exception into []
list_items(f, q) ==
    LET d == load_queue_result(f, q)
        usable == ~d.raised /\ d.has_queue
    IN  [raised |-> FALSE,
         pending |-> IF usable THEN get_pending_items(d.queue) ELSE <<>>,
         submitted |-> IF usable THEN get_submitted_items(d.queue) ELSE <<>>]

HasId(q, id) == \E i \in 1..Len(q) : q[i].id = id

\* update_queue_item: item.update(updates) on the loaded data; updates is a
\* record whose fields replace the item's
ApplyUpdate(item, updates) ==
    [f \in DOMAIN item |-> IF f \in DOMAIN updates THEN updates[f] ELSE item[f]]

update_queue_item_data(q, id, updates) ==
    [i \in 1..Len(q) |->
        IF q[i].id = id /\ ~(\E k \in 1..(i - 1) : q[k].id = id)
        THEN ApplyUpdate(q[i], updates) ELSE q[i]]

IsRemovable(item) == item.status = "completed" /\ item.report_downloaded

KeepItem(item) == ~IsRemovable(item)

\* remove_completed_items: the filtered list
remove_completed_data(q) == SelectSeq(q, KeepItem)

\* ---------------------------------------------------------- turnitin_helpers
Assignments == 1..NumAssignments

StudentIds == 1..(IF NumStudents > BatchStudents THEN NumStudents ELSE BatchStudents)

\* hours_ago < 24 for a recorded submission
InWindow(sub, t) == t - sub.timestamp < WindowSeconds

RECURSIVE recent_submissions(_, _)
\* the loop that collects a student's submissions of the last 24 hours
recent_submissions(subs, t) ==
    IF subs = <<>> THEN <<>>
    ELSE IF InWindow(Head(subs), t)
         THEN <<Head(subs)>> \o recent_submissions(Tail(subs), t)
         ELSE recent_submissions(Tail(subs), t)

\* a student is appended to available when fewer than 3 recent submissions
StudentAvailable(subs, t) == Len(recent_submissions(subs, t)) < StudentCap

RECURSIVE AvailableLoop(_, _, _)
AvailableLoop(students, submissions, t) ==
    IF students = <<>> THEN <<>>
    ELSE LET s == Head(students)
             rest == AvailableLoop(Tail(students), submissions, t)
         IN  IF StudentAvailable(submissions[s], t) THEN <<s>> \o rest ELSE rest

\* get_available_students: needs = the "NEEDS_STUDENT_DATA" marker
get_available_students(tracking, a, t) ==
    IF a \notin DOMAIN tracking \/ ~tracking[a].present \/ tracking[a].students = <<>>
    THEN [needs |-> TRUE, list |-> <<>>]
    ELSE [needs |-> FALSE,
          list |-> AvailableLoop(tracking[a].students, tracking[a].submissions, t)]

Usable(tracking, a, t) ==
    LET av == get_available_students(tracking, a, t)
    IN  av.needs \/ Len(av.list) > 0

\* a variant of get_current_assignment whose rotation goes on to the last
\* usable bucket within reach
get_current_assignment_LastHit(tracking, cur, t) ==
    IF Usable(tracking, cur, t) THEN cur
    ELSE LET hits == {k \in 1..MaxLookups : Usable(tracking, cur + k, t)}
         IN  IF hits = {} THEN cur
             ELSE cur + (CHOOSE k \in hits : \A h \in hits : k >= h)

\* get_current_assignment: the name returned, which is also the value of
\* current_assignment afterwards (saved when the rotation finds a bucket)
get_current_assignment(tracking, cur, t) ==
    IF Usable(tracking, cur, t) THEN cur
    ELSE LET hits == {k \in 1..MaxLookups : Usable(tracking, cur + k, t)}
         IN  IF hits = {} THEN cur
             ELSE cur + (CHOOSE k \in hits : \A h \in hits : k <= h)

\* add_student_submission: append {timestamp, title} to the student's list
add_student_submission(tracking, a, s, title, t) ==
    [tracking EXCEPT ![a].present = TRUE,
                     ![a].submissions[s] = Append(@, [timestamp |-> t, title |-> title])]

\* save_students_to_tracking (turnitin_batch): replace the student list
save_students_to_tracking(tracking, a, students) ==
    [tracking EXCEPT ![a].present = TRUE, ![a].students = students]

\* ------------------------------------------------------------ turnitin_batch
\* A user id is the integer Telegram id; a timestamp is the number of
\* microseconds datetime.now() lies after 2025-01-01T00:00:00, so that
\* isoformat() is 2025-01-01THH:MM:SS.ffffff, or 2025-01-01THH:MM:SS where
\* the microsecond field is zero.
RECURSIVE NumDigits(_)
NumDigits(n) == IF n < 10 THEN 1 ELSE 1 + NumDigits(n \div 10)

RECURSIVE Pow10(_)
Pow10(k) == IF k = 0 THEN 1 ELSE 10 * Pow10(k - 1)

\* str(user_id)[-4:]: the last four digits, fewer if the id is shorter
user_part(user_id) ==
    [len |-> Min2(NumDigits(user_id), TitleUserChars),
     digits |-> user_id % Pow10(TitleUserChars)]

\* the last six characters of the timestamp without "-", ":", "T" and " ":
\* the microsecond field, or HHMMSS where isoformat() prints no fraction
time_part(timestamp) ==
    LET micro == timestamp % 1000000
        secs == (timestamp \div 1000000) % 86400
        hhmmss == (secs \div 3600) * 10000 + ((secs \div 60) % 60) * 100
                     + (secs % 60)
    IN  [len |-> TitleTimeChars,
         digits |-> (IF micro # 0 THEN micro ELSE hhmmss) % Pow10(TitleTimeChars)]

\* hashlib.md5(f"{user_id}{timestamp}").hexdigest()[:4] of the inputs whose
\* digest is tabulated
Md5Prefix ==
    <<123456789, 49123456>> :> "8f2f" @@
    <<123456789, 165123456>> :> "8f2f" @@
    <<103966789, 123456>> :> "4d02" @@
    <<106136789, 123456>> :> "4d02" @@
    <<123456789, 1200000000>> :> "430f" @@
    <<1, 123456>> :> "c88e"

\* the hash component: four hexadecimal characters; a digest that is not
\* tabulated stays symbolic and equals no other digest
hash_part(user_id, timestamp) ==
    IF <<user_id, timestamp>> \in DOMAIN Md5Prefix
    THEN [len |-> TitleHashChars, hex |-> <<Md5Prefix[<<user_id, timestamp>>]>>]
    ELSE [len |-> TitleHashChars,
          hex |-> <<"md5", ToString(user_id), ToString(timestamp)>>]

\* generate_submission_title: user part, time part and hash part, joined
generate_submission_title(user_id, timestamp) ==
    <<user_part(user_id), time_part(timestamp), hash_part(user_id, timestamp)>>

\* len(title)
TitleLength(title) == title[1].len + title[2].len + title[3].len

\* the students the dropdown lists: the first n of the class roster
PageStudents(n) == [i \in 1..n |-> i]

\* one iteration of the per-slot loop of submit_batch (i counts from 1)
MainIteration(st, i, avail, a, t, fails) ==
    IF i \in fails
    THEN [st EXCEPT !.items[i].status = "failed", !.items[i].error = TRUE]
    ELSE LET it == st.items[i]
             title == generate_submission_title(it.user_id, it.timestamp)
         IN  [items |-> [st.items EXCEPT ![i].student_id = avail[i],
                                         ![i].submission_title = title,
                                         ![i].assignment = a,
                                         ![i].status = "processing"],
              tracking |-> add_student_submission(st.tracking, a, avail[i], title, t),
              count |-> st.count + 1]

RECURSIVE MainLoop(_, _, _, _, _, _, _)
MainLoop(st, i, max_submissions, avail, a, t, fails) ==
    IF i > max_submissions THEN st
    ELSE MainLoop(MainIteration(st, i, avail, a, t, fails), i + 1,
                  max_submissions, avail, a, t, fails)

RECURSIVE TopUpLoop(_, _, _, _, _, _, _, _, _)
\* the "remaining files" loop: j counts from 0 as in the code, base is the
\* value of submitted_count when remaining_files was sliced
TopUpLoop(st, j, files_to_add, base, nFile, avail, a, t, skips) ==
    IF j >= files_to_add THEN st
    ELSE LET file_index == st.count + j
             student_index == st.count + j
         IN  IF student_index >= Len(avail) THEN st
             ELSE IF file_index < nFile /\ (j + 1) \notin skips
             THEN LET it == st.items[base + j + 1]
                      s == avail[student_index + 1]
                      title == generate_submission_title(it.user_id, it.timestamp)
                      st2 == [items |-> [st.items EXCEPT
                                            ![base + j + 1].student_id = s,
                                            ![base + j + 1].submission_title = title,
                                            ![base + j + 1].assignment = a,
                                            ![base + j + 1].status = "processing"],
                              tracking |-> add_student_submission(st.tracking, a, s, title, t),
                              count |-> st.count + 1]
                  IN  TopUpLoop(st2, j + 1, files_to_add, base, nFile, avail, a, t, skips)
             ELSE TopUpLoop(st, j + 1, files_to_add, base, nFile, avail, a, t, skips)

\* files_to_add of the "remaining files" block
FilesToAdd(nItems, count, nFile, nAvail) ==
    IF nItems - count > 0
    THEN Min3(nItems - count, nFile - count, nAvail - count)
    ELSE 0

\* queue_items[:submitted_count] get status "submitted"
MarkSubmitted(items, count) ==
    [i \in 1..Len(items) |->
        IF i <= count THEN [items[i] EXCEPT !.status = "submitted"] ELSE items[i]]

\* max_submissions = min(form fields, available students, queue items)
MaxSubmissions(max_form, nAvail, nItems) == Min3(max_form, nAvail, nItems)

\* submit_batch from the extraction of the students on: e holds what the
\* site does (n students listed, nFile file inputs, max_form usable field
\* sets, fails/skips = slots whose field filling throws or times out,
\* upload/submit = the two buttons get clicked)
submit_batch(items, a, tracking, t, e) ==
    LET failed == [ok |-> FALSE, items |-> items, tracking |-> tracking, count |-> 0,
                   avail |-> 0]
    IN
    IF items = <<>> \/ ~e.reached \/ e.n = 0 THEN failed
    ELSE
    LET tr1 == save_students_to_tracking(tracking, a, PageStudents(e.n))
        av == get_available_students(tr1, a, t)
        saved == [failed EXCEPT !.tracking = tr1]
    IN
    IF av.needs \/ Len(av.list) = 0 THEN saved
    ELSE
    LET max_submissions == MaxSubmissions(e.max_form, Len(av.list), Len(items))
    IN
    IF max_submissions = 0 THEN saved
    ELSE
    LET st0 == [items |-> items, tracking |-> tr1, count |-> 0]
        st1 == MainLoop(st0, 1, max_submissions, av.list, a, t, e.fails)
    IN
    IF st1.count = 0
    THEN [ok |-> FALSE, items |-> st1.items, tracking |-> st1.tracking, count |-> 0,
          avail |-> Len(av.list)]
    ELSE
    LET n_add == FilesToAdd(Len(items), st1.count, e.nFile, Len(av.list))
        st2 == TopUpLoop(st1, 0, n_add, st1.count, e.nFile, av.list, a, t, e.skips)
    IN
    IF ~e.upload \/ ~e.submit
    THEN [ok |-> FALSE, items |-> st2.items, tracking |-> st2.tracking,
          count |-> st2.count, avail |-> Len(av.list)]
    ELSE [ok |-> TRUE, items |-> MarkSubmitted(st2.items, st2.count),
          tracking |-> st2.tracking, count |-> st2.count, avail |-> Len(av.list)]

\* the form was never reached (session lost, no file input, no dropdown)
NoSite ==
    [reached |-> FALSE, n |-> 0, nFile |-> 0, max_form |-> 0,
     fails |-> {}, skips |-> {}, upload |-> FALSE, submit |-> FALSE]

\* what the site may do during one submit_batch, for a given page size
SiteChoices(maxRoster, maxForm, nItems) ==
    {NoSite}
    \cup
    UNION {UNION {UNION {
        {[reached |-> TRUE, n |-> n, nFile |-> nf, max_form |-> mf,
          fails |-> fs, skips |-> sk, upload |-> c[1], submit |-> c[2]] :
            fs \in SUBSET (1..Min2(mf, nItems)),
            sk \in SUBSET (1..Min2(nf - 1, nItems - 1)),
            c \in {<<FALSE, FALSE>>, <<TRUE, FALSE>>, <<TRUE, TRUE>>}}
        : mf \in 0..nf} : nf \in 0..maxForm} : n \in 0..maxRoster}

\* --------------------------------------------------- turnitin_processor_batch
\* submit_dynamic_batch_with_queue_monitoring: all pending items up to capacity
CollectBatch(q, max_students) ==
    Prefix(SelectSeq(q, IsPending), Min2(max_students, BatchCeiling))

RECURSIVE WriteBack(_, _, _)
\* the loop that copies the batch fields into the loaded queue
WriteBack(q, items, t) ==
    IF items = <<>> THEN q
    ELSE LET it == Head(items)
         IN  WriteBack(update_queue_item_data(q, it.id,
                            [status |-> "submitted", submitted_at |-> t,
                             submission_title |-> it.submission_title,
                             student_id |-> it.student_id,
                             assignment |-> it.assignment]),
                       Tail(items), t)

Titled(items) == {i \in 1..Len(items) : items[i].submission_title # NoTitle}

\* wait_for_similarity_scores: the items in got receive a score
SetScores(items, got) ==
    [i \in 1..Len(items) |->
        IF i \in got THEN [items[i] EXCEPT !.similarity_score = TRUE] ELSE items[i]]

\* all_ready of the attempt that ends the polling
AllReady(items) == \A i \in Titled(items) : items[i].similarity_score

RECURSIVE FinalStatusUpdates(_, _)
\* download_pending_reports: update_queue_item for items whose in-memory
\* report_downloaded is set
FinalStatusUpdates(q, items) ==
    IF items = <<>> THEN q
    ELSE IF Head(items).report_downloaded
         THEN FinalStatusUpdates(
                  update_queue_item_data(q, Head(items).id,
                      [status |-> "completed", report_downloaded |-> TRUE]),
                  Tail(items))
         ELSE FinalStatusUpdates(q, Tail(items))

\* ------------------------------------------------------------ queue_processor
IsUpload(c) == c \in {"sip", "cl_upload"}

InPass(t) ==
    pc[t] \in {"pd_start", "pd_wb_load", "pd_wb_save", "poll", "dp_start", "dl",
              "dl_save"}

\* a pass returns `result` to start_immediate_processing or cleanup_if_idle
Return(t, result) ==
    /\ loc' = [loc EXCEPT ![t].ret = result]
    /\ pc' = [pc EXCEPT ![t] = IF ctx[t] = "sip" THEN "sip_finish" ELSE "cl_finish"]

\* the breaker test of start_immediate_processing
BreakerActive(ps, t) ==
    /\ ps.failure_count >= BreakerThreshold
    /\ ps.last_failure_time # NoTime
    /\ t - ps.last_failure_time < CooldownSeconds

\* failure_count after the breaker test let the call through
CountAfterCooldown(ps) ==
    IF ps.failure_count >= BreakerThreshold /\ ps.last_failure_time # NoTime
    THEN 0 ELSE ps.failure_count

\* bookkeeping after an upload pass
AfterUpload(ps, success, t) ==
    IF success
    THEN [ps EXCEPT !.failure_count = 0, !.is_running = FALSE]
    ELSE [ps EXCEPT !.failure_count = @ + 1, !.last_failure_time = t,
                    !.is_running = FALSE]

\* submitted items split by age (age_minutes < 2)
IsRecent(item) ==
    item.submitted_at # NoTime /\ now - item.submitted_at < RecentSeconds

IsOld(item) == ~IsRecent(item)

recent_submissions_of(q) == SelectSeq(get_submitted_items(q), IsRecent)

old_submissions_of(q) == SelectSeq(get_submitted_items(q), IsOld)

\* what send_reports_to_user_queue can deliver
MessageKinds == {"similarity_report", "ai_report", "completion"}

\* per-thread locals: ret = the pass's return value, sip = how
\* start_immediate_processing went, site/avail/queued = what the running
\* submit_batch met (the figures of its "Maximum submissions" log line),
\* students/at = the list a direct get_available_students call returned and
\* the time of that call, attempt = polling attempts of the running
\* wait_for_similarity_scores, scores_ready = its return value
\* before = the file's list when the running save_queue began, tries = its
\* failed attempts, seen/loaded/listed = the file's condition at the last
\* read_queue and what load_queue and the two list functions returned,
\* crashed_in = where the thread was when the process died, found = the ids
\* get_pending_items gave the pass, has_page = get_session_page gave the pass
\* a page, admin_calls/cmd = the admin commands the thread has issued and the
\* last of them, was_running/old_count = what force_stop_processor and
\* reset_circuit_breaker returned to it
EmptyLoc ==
    [ret |-> TRUE, sip |-> "none", site |-> NoSite, avail |-> 0, queued |-> 0,
     students |-> <<>>, at |-> NoTime, attempt |-> 0, scores_ready |-> "none",
     before |-> <<>>, tries |-> 0, seen |-> "none",
     loaded |-> load_queue_result("missing", <<>>),
     listed |-> list_items("missing", <<>>), crashed_in |-> "none",
     found |-> {}, has_page |-> FALSE, admin_calls |-> 0, cmd |-> "none",
     was_running |-> FALSE, old_count |-> 0, has_read |-> FALSE,
     count_read |-> 0, send_tries |-> [m \in MessageKinds |-> 0],
     send_waited |-> [m \in MessageKinds |-> 0]]

\* no browser session exists
NoSession == [owner |-> NoThread, last_activity |-> NoTime]

Init ==
    /\ queue = <<>>
    /\ processor_state = [is_running |-> FALSE, failure_count |-> 0,
                          last_failure_time |-> NoTime]
    /\ processing_lock = NoThread
    /\ student_tracking = [a \in Assignments |->
            [present |-> FALSE, students |-> <<>>,
             submissions |-> [s \in StudentIds |-> <<>>]]]
    /\ current_assignment = 1
    /\ now = 0
    /\ nextId = 1
    /\ pc = [t \in Threads |-> "idle"]
    /\ ctx = [t \in Threads |-> "none"]
    /\ work = [t \in Threads |-> <<>>]
    /\ idx = [t \in Threads |-> 0]
    /\ buf = [t \in Threads |-> <<>>]
    /\ loc = [t \in Threads |-> EmptyLoc]
    /\ sent = {}
    /\ queue_file = "ok"
    /\ temp_file = <<>>
    /\ queue_lock = NoThread
    /\ browser_session = NoSession

\* time passes
Advance(step, maxTime) ==
    /\ now + step <= maxTime
    /\ now' = now + step
    /\ UNCHANGED <<queue, processor_state, processing_lock, student_tracking,
                   current_assignment, nextId, pc, ctx, work, idx, buf, loc>>
    /\ UNCHANGED <<sent, queue_file, temp_file, queue_lock, browser_session>>

Tick == Advance(TickStep, MaxTime)

\* add_to_queue up to the append: load_queue and the new item
add_to_queue(t, maxItems) ==
    /\ pc[t] = "idle"
    /\ nextId <= maxItems
    /\ buf' = [buf EXCEPT ![t] = Append(load_queue, NewItem(nextId, t))]
    /\ nextId' = nextId + 1
    /\ pc' = [pc EXCEPT ![t] = "add_save"]
    /\ UNCHANGED <<queue, processor_state, processing_lock, student_tracking,
                   current_assignment, now, ctx, work, idx, loc>>
    /\ UNCHANGED <<sent, queue_file, temp_file, queue_lock, browser_session>>

\* add_to_queue: save_queue(queue_data) and return
add_to_queue_save(t) ==
    /\ pc[t] = "add_save"
    /\ queue' = buf[t]
    /\ buf' = [buf EXCEPT ![t] = <<>>]
    /\ pc' = [pc EXCEPT ![t] = "idle"]
    /\ UNCHANGED <<processor_state, processing_lock, student_tracking,
                   current_assignment, now, nextId, ctx, work, idx, loc>>
    /\ UNCHANGED <<sent, queue_file, temp_file, queue_lock, browser_session>>

\* start_immediate_processing: _processing_lock.acquire(blocking=False)
start_immediate_processing(t) ==
    /\ pc[t] = "idle"
    /\ IF processing_lock # NoThread
       THEN UNCHANGED <<processing_lock, pc>>      \* return False, no finally
       ELSE /\ processing_lock' = t
            /\ pc' = [pc EXCEPT ![t] = "sip_check"]
    /\ UNCHANGED <<queue, processor_state, student_tracking, current_assignment,
                   now, nextId, ctx, work, idx, buf, loc>>
    /\ UNCHANGED <<sent, queue_file, temp_file, queue_lock, browser_session>>

\* start_immediate_processing with the lock held: the is_running test, the
\* circuit breaker, then either the early return (whose finally releases the
\* lock and calls cleanup_if_idle) or the start of the pass
sip_check(t) ==
    /\ pc[t] = "sip_check"
    /\ IF processor_state.is_running \/ BreakerActive(processor_state, now)
       THEN /\ loc' = [loc EXCEPT ![t].sip =
                        IF processor_state.is_running THEN "running" ELSE "breaker"]
            /\ processing_lock' = NoThread
            /\ pc' = [pc EXCEPT ![t] = "cl_start"]
            /\ UNCHANGED <<processor_state, ctx>>
       ELSE /\ processor_state' =
                    [processor_state EXCEPT
                        !.failure_count = CountAfterCooldown(processor_state),
                        !.is_running = TRUE]
            /\ loc' = [loc EXCEPT ![t].sip = "ran"]
            /\ ctx' = [ctx EXCEPT ![t] = "sip"]
            /\ pc' = [pc EXCEPT ![t] = "pd_start"]
            /\ UNCHANGED processing_lock
    /\ UNCHANGED <<queue, student_tracking, current_assignment, now, nextId,
                   work, idx, buf>>
    /\ UNCHANGED <<sent, queue_file, temp_file, queue_lock, browser_session>>

\* a variant of sip_finish whose outer finally does not release the lock
sip_finish_KeepsLock(t) ==
    /\ pc[t] = "sip_finish"
    /\ loc[t].ret \/ processor_state.failure_count < MaxFailureCount
    /\ processor_state' = AfterUpload(processor_state, loc[t].ret, now)
    /\ ctx' = [ctx EXCEPT ![t] = "none"]
    /\ pc' = [pc EXCEPT ![t] = "cl_start"]
    /\ loc' = [loc EXCEPT ![t] = [EmptyLoc EXCEPT !.sip = loc[t].sip]]
    /\ UNCHANGED <<queue, student_tracking, current_assignment, now, nextId,
                   work, idx, buf, processing_lock>>
    /\ UNCHANGED <<sent, queue_file, temp_file, queue_lock, browser_session>>

\* start_immediate_processing after the pass: failure bookkeeping, the two
\* finally blocks, then cleanup_if_idle
sip_finish(t) ==
    /\ pc[t] = "sip_finish"
    /\ loc[t].ret \/ processor_state.failure_count < MaxFailureCount
    /\ processor_state' = AfterUpload(processor_state, loc[t].ret, now)
    /\ processing_lock' = NoThread
    /\ ctx' = [ctx EXCEPT ![t] = "none"]
    /\ pc' = [pc EXCEPT ![t] = "cl_start"]
    /\ loc' = [loc EXCEPT ![t] = [EmptyLoc EXCEPT !.sip = loc[t].sip]]
    /\ UNCHANGED <<queue, student_tracking, current_assignment, now, nextId,
                   work, idx, buf>>
    /\ UNCHANGED <<sent, queue_file, temp_file, queue_lock, browser_session>>

\* a variant of cleanup_branch that uploads pending items before it looks at
\* the recent submissions
cleanup_branch_PendingFirst(t) ==
    LET recent == recent_submissions_of(load_queue)
        pending == get_pending_items(load_queue)
        old == old_submissions_of(load_queue)
    IN
    IF recent # <<>> \/ pending # <<>> \/ old # <<>>
    THEN /\ processor_state' = [processor_state EXCEPT !.is_running = TRUE]
         /\ ctx' = [ctx EXCEPT ![t] = IF pending # <<>> THEN "cl_upload"
                                      ELSE IF recent # <<>> THEN "cl_recent"
                                      ELSE "cl_old"]
         /\ work' = [work EXCEPT ![t] = IF pending # <<>> THEN <<>>
                                        ELSE IF recent # <<>> THEN recent
                                        ELSE old]
         /\ pc' = [pc EXCEPT ![t] = IF pending # <<>>
                                    THEN "pd_start" ELSE "dp_start"]
         /\ UNCHANGED loc
    ELSE /\ pc' = [pc EXCEPT ![t] = "idle"]
         /\ loc' = [loc EXCEPT ![t] = EmptyLoc]
         /\ ctx' = [ctx EXCEPT ![t] = "none"]
         /\ work' = [work EXCEPT ![t] = <<>>]
         /\ UNCHANGED processor_state

\* cleanup_if_idle from "Get current queue state" on: one branch is taken
cleanup_branch(t) ==
    LET recent == recent_submissions_of(load_queue)
        pending == get_pending_items(load_queue)
        old == old_submissions_of(load_queue)
    IN
    IF recent # <<>> \/ pending # <<>> \/ old # <<>>
    THEN /\ processor_state' = [processor_state EXCEPT !.is_running = TRUE]
         /\ ctx' = [ctx EXCEPT ![t] = IF recent # <<>> THEN "cl_recent"
                                      ELSE IF pending # <<>> THEN "cl_upload"
                                      ELSE "cl_old"]
         /\ work' = [work EXCEPT ![t] = IF recent # <<>> THEN recent
                                        ELSE IF pending # <<>> THEN <<>>
                                        ELSE old]
         /\ pc' = [pc EXCEPT ![t] = IF recent = <<>> /\ pending # <<>>
                                    THEN "pd_start" ELSE "dp_start"]
         /\ UNCHANGED loc
    ELSE /\ pc' = [pc EXCEPT ![t] = "idle"]
         /\ loc' = [loc EXCEPT ![t] = EmptyLoc]
         /\ ctx' = [ctx EXCEPT ![t] = "none"]
         /\ work' = [work EXCEPT ![t] = <<>>]
         /\ UNCHANGED processor_state

\* cleanup_if_idle: remove_completed_items loads and filters; when nothing is
\* removable nothing is saved and the queue state is examined
cleanup_if_idle(t) ==
    /\ pc[t] = "cl_start"
    /\ IF remove_completed_data(load_queue) # load_queue
       THEN /\ buf' = [buf EXCEPT ![t] = remove_completed_data(load_queue)]
            /\ pc' = [pc EXCEPT ![t] = "cl_rm_save"]
            /\ UNCHANGED <<processor_state, ctx, work, loc>>
       ELSE /\ cleanup_branch(t)
            /\ UNCHANGED buf
    /\ UNCHANGED <<queue, processing_lock, student_tracking, current_assignment,
                   now, nextId, idx>>
    /\ UNCHANGED <<sent, queue_file, temp_file, queue_lock, browser_session>>

\* remove_completed_items: save_queue of the filtered list
remove_completed_items_save(t) ==
    /\ pc[t] = "cl_rm_save"
    /\ queue' = buf[t]
    /\ buf' = [buf EXCEPT ![t] = <<>>]
    /\ pc' = [pc EXCEPT ![t] = "cl_check"]
    /\ UNCHANGED <<processor_state, processing_lock, student_tracking,
                   current_assignment, now, nextId, ctx, work, idx, loc>>
    /\ UNCHANGED <<sent, queue_file, temp_file, queue_lock, browser_session>>

\* cleanup_if_idle after remove_completed_items saved
cleanup_check(t) ==
    /\ pc[t] = "cl_check"
    /\ cleanup_branch(t)
    /\ UNCHANGED <<queue, processing_lock, student_tracking, current_assignment,
                   now, nextId, idx, buf>>
    /\ UNCHANGED <<sent, queue_file, temp_file, queue_lock, browser_session>>

\* cleanup_if_idle after its pass: bookkeeping (upload branch only), finally,
\* and the recursive call
cleanup_finish(t) ==
    /\ pc[t] = "cl_finish"
    /\ ctx[t] # "cl_upload" \/ loc[t].ret
            \/ processor_state.failure_count < MaxFailureCount
    /\ processor_state' =
            IF ctx[t] = "cl_upload"
            THEN AfterUpload(processor_state, loc[t].ret, now)
            ELSE [processor_state EXCEPT !.is_running = FALSE]
    /\ ctx' = [ctx EXCEPT ![t] = "none"]
    /\ work' = [work EXCEPT ![t] = <<>>]
    /\ pc' = [pc EXCEPT ![t] = "cl_start"]
    /\ loc' = [loc EXCEPT ![t] = [EmptyLoc EXCEPT !.sip = loc[t].sip]]
    /\ UNCHANGED <<queue, processing_lock, student_tracking, current_assignment,
                   now, nextId, idx, buf>>
    /\ UNCHANGED <<sent, queue_file, temp_file, queue_lock, browser_session>>

\* process_dynamic_batch_documents from get_pending_items on and
\* submit_dynamic_batch_with_queue_monitoring up to the return of
\* submit_batch
submit_dynamic_batch_with_queue_monitoring(t, maxRoster, maxForm) ==
    /\ LET a == get_current_assignment(student_tracking, current_assignment, now)
           av == get_available_students(student_tracking, a, now)
           max_students == IF av.needs THEN DefaultMaxStudents ELSE Len(av.list)
           batch_items == CollectBatch(load_queue, max_students)
       IN
       \/ /\ get_pending_items(load_queue) = <<>>
          /\ Return(t, TRUE)
          /\ UNCHANGED <<current_assignment, student_tracking, work>>
       \/ /\ get_pending_items(load_queue) # <<>>
          /\ Return(t, FALSE)              \* get_session_page raised
          /\ UNCHANGED <<current_assignment, student_tracking, work>>
       \/ /\ get_pending_items(load_queue) # <<>>
          /\ a \in DOMAIN student_tracking
          /\ current_assignment' = a
          /\ \/ /\ Return(t, FALSE)        \* no students, or navigation failed
                /\ UNCHANGED <<student_tracking, work>>
             \/ /\ av.needs \/ Len(av.list) > 0
                /\ \E e \in SiteChoices(maxRoster, maxForm, Len(batch_items)) :
                      LET r == submit_batch(batch_items, a, student_tracking, now, e)
                      IN  /\ student_tracking' = r.tracking
                          /\ IF r.ok
                             THEN /\ work' = [work EXCEPT ![t] = r.items]
                                  /\ pc' = [pc EXCEPT ![t] = "pd_wb_load"]
                                  /\ loc' = [loc EXCEPT ![t].site = e,
                                                ![t].avail = r.avail,
                                                ![t].queued = Len(SelectSeq(load_queue, IsPending))]
                             ELSE /\ Return(t, FALSE)
                                  /\ UNCHANGED work
    /\ UNCHANGED <<queue, processor_state, processing_lock, now, nextId, ctx,
                   idx, buf>>
    /\ UNCHANGED <<sent, queue_file, temp_file, queue_lock>>

\* process_dynamic_batch_documents up to the return of submit_batch, with
\* get_session_page either giving a page or raising
process_dynamic_batch_documents(t, maxRoster, maxForm) ==
    /\ pc[t] = "pd_start"
    /\ submit_dynamic_batch_with_queue_monitoring(t, maxRoster, maxForm)
    /\ UNCHANGED browser_session

\* the write-back: load_queue and the copy loop
write_back_load(t) ==
    /\ pc[t] = "pd_wb_load"
    /\ buf' = [buf EXCEPT ![t] = WriteBack(load_queue, work[t], now)]
    /\ pc' = [pc EXCEPT ![t] = "pd_wb_save"]
    /\ UNCHANGED <<queue, processor_state, processing_lock, student_tracking,
                   current_assignment, now, nextId, ctx, work, idx, loc>>
    /\ UNCHANGED <<sent, queue_file, temp_file, queue_lock, browser_session>>

\* the write-back's save_queue, then wait_for_similarity_scores; when all
\* scores are ready download_reports_for_batch follows
write_back_save(t) ==
    /\ pc[t] = "pd_wb_save"
    /\ queue' = buf[t]
    /\ buf' = [buf EXCEPT ![t] = <<>>]
    /\ \E got \in SUBSET Titled(work[t]) :
          LET items == SetScores(work[t], got)
          IN  IF AllReady(items)
              THEN /\ work' = [work EXCEPT ![t] = items]
                   /\ pc' = [pc EXCEPT ![t] = "dl"]
                   /\ idx' = [idx EXCEPT ![t] = 1]
                   /\ UNCHANGED loc
              ELSE /\ work' = [work EXCEPT ![t] = <<>>]
                   /\ Return(t, TRUE)
                   /\ UNCHANGED idx
    /\ UNCHANGED <<processor_state, processing_lock, student_tracking,
                   current_assignment, now, nextId, ctx>>
    /\ UNCHANGED <<sent, queue_file, temp_file, queue_lock, browser_session>>

\* the write-back's save_queue; wait_for_similarity_scores is entered
save_submission_details(t) ==
    /\ pc[t] = "pd_wb_save"
    /\ queue' = buf[t]
    /\ buf' = [buf EXCEPT ![t] = <<>>]
    /\ pc' = [pc EXCEPT ![t] = "poll"]
    /\ loc' = [loc EXCEPT ![t].attempt = 0, ![t].scores_ready = "none"]
    /\ UNCHANGED <<processor_state, processing_lock, student_tracking,
                   current_assignment, now, nextId, ctx, work, idx>>
    /\ UNCHANGED <<sent, queue_file, temp_file, queue_lock, browser_session>>

\* max_attempts of wait_for_similarity_scores
max_attempts(max_wait_minutes) == (max_wait_minutes * 60) \div PollSeconds

\* wait_for_similarity_scores: one polling attempt (found = the titled items
\* whose row shows a score in this attempt), or the return after the last
\* attempt; on False the caller skips the download and returns True
wait_for_similarity_scores(t, max_wait_minutes) ==
    /\ pc[t] = "poll"
    /\ IF loc[t].attempt >= max_attempts(max_wait_minutes)
       THEN /\ loc' = [loc EXCEPT ![t].scores_ready = "false", ![t].ret = TRUE]
            /\ pc' = [pc EXCEPT ![t] = IF ctx[t] = "sip" THEN "sip_finish"
                                       ELSE "cl_finish"]
            /\ UNCHANGED <<work, idx>>
       ELSE \E found \in SUBSET Titled(work[t]) :
               /\ work' = [work EXCEPT ![t] = SetScores(work[t], found)]
               /\ IF found = Titled(work[t])
                  THEN /\ loc' = [loc EXCEPT ![t].scores_ready = "true"]
                       /\ pc' = [pc EXCEPT ![t] = "dl"]
                       /\ idx' = [idx EXCEPT ![t] = 1]
                  ELSE /\ loc' = [loc EXCEPT ![t].attempt = @ + 1]
                       /\ UNCHANGED <<pc, idx>>
    /\ UNCHANGED <<queue, processor_state, processing_lock, student_tracking,
                   current_assignment, now, nextId, ctx, buf>>
    /\ UNCHANGED <<sent, queue_file, temp_file, queue_lock, browser_session>>

\* download_pending_reports up to the navigation to the inbox
navigate_to_inbox(t) ==
    /\ LET a == get_current_assignment(student_tracking, current_assignment, now)
       IN
       \/ /\ work[t] = <<>>
          /\ Return(t, TRUE)
          /\ UNCHANGED <<current_assignment, idx>>
       \/ /\ work[t] # <<>>
          /\ Return(t, FALSE)              \* get_session_page raised
          /\ UNCHANGED <<current_assignment, idx>>
       \/ /\ work[t] # <<>>
          /\ a \in DOMAIN student_tracking
          /\ current_assignment' = a
          /\ \/ /\ Return(t, FALSE)        \* navigation failed
                /\ UNCHANGED idx
             \/ /\ pc' = [pc EXCEPT ![t] = "dl"]
                /\ idx' = [idx EXCEPT ![t] = 1]
                /\ UNCHANGED loc
    /\ UNCHANGED <<queue, processor_state, processing_lock, student_tracking,
                   now, nextId, ctx, work, buf>>
    /\ UNCHANGED <<sent, queue_file, temp_file, queue_lock>>

\* download_pending_reports up to the navigation to the inbox, with
\* get_session_page either giving a page or raising
download_pending_reports(t) ==
    /\ pc[t] = "dp_start"
    /\ navigate_to_inbox(t)
    /\ UNCHANGED browser_session

\* download_reports_for_batch: the item is passed over without a queue update
\* (no score yet; or row, report page or files missing; or id not in queue)
CanSkip(item, q) ==
    IF item.submission_title = NoTitle THEN ~HasId(q, item.id) ELSE TRUE

\* download_reports_for_batch: the item leads to an update_queue_item
CanUpdate(item, q) ==
    /\ HasId(q, item.id)
    /\ item.submission_title = NoTitle \/ item.similarity_score

\* a variant of ItemUpdates that records the status only
ItemUpdates_StatusOnly(item) ==
    IF item.submission_title = NoTitle
    THEN [status |-> "failed", error |-> TRUE]
    ELSE [status |-> "completed"]

\* the updates of the item's update_queue_item call
ItemUpdates(item) ==
    IF item.submission_title = NoTitle
    THEN [status |-> "failed", error |-> TRUE]
    ELSE [status |-> "completed", report_downloaded |-> TRUE]

\* send_reports_to_user_queue: sim/ai = the report file was downloaded,
\* delivered = the sends that succeed within their three tries; the
\* completion message is sent only when both files exist
send_reports_to_user_queue(id, sim, ai, delivered) ==
    {<<id, k>> : k \in {m \in delivered :
                          \/ m = "similarity_report" /\ sim
                          \/ m = "ai_report" /\ ai
                          \/ m = "completion" /\ sim /\ ai}}

\* every way the downloads and the sends of one item can go that ends in
\* send_reports_to_user_queue (at least one report file was downloaded)
DeliveryOutcomes ==
    {[sim |-> o[1], ai |-> o[2], delivered |-> d] :
        o \in {<<TRUE, TRUE>>, <<TRUE, FALSE>>, <<FALSE, TRUE>>},
        d \in SUBSET MessageKinds}

\* both report files are downloaded and every send succeeds
SmoothDelivery ==
    {[sim |-> TRUE, ai |-> TRUE, delivered |-> MessageKinds]}

\* download_reports_for_batch: the loop from idx on, up to the load_queue of
\* the next update_queue_item, or to the end of the pass; outcomes = how
\* the downloads and sends of an item may go
download_reports_for_batch(t, outcomes) ==
    /\ pc[t] = "dl"
    /\ \/ \E k \in idx[t]..Len(work[t]) :
            /\ \A i \in idx[t]..(k - 1) : CanSkip(work[t][i], load_queue)
            /\ CanUpdate(work[t][k], load_queue)
            /\ buf' = [buf EXCEPT ![t] = update_queue_item_data(
                            load_queue, work[t][k].id, ItemUpdates(work[t][k]))]
            /\ idx' = [idx EXCEPT ![t] = k]
            /\ pc' = [pc EXCEPT ![t] = "dl_save"]
            /\ IF work[t][k].submission_title = NoTitle
               THEN UNCHANGED sent
               ELSE \E o \in outcomes :
                       sent' = sent \cup send_reports_to_user_queue(
                                   work[t][k].id, o.sim, o.ai, o.delivered)
            /\ UNCHANGED <<queue, work, loc>>
       \/ /\ \A i \in idx[t]..Len(work[t]) : CanSkip(work[t][i], load_queue)
          /\ queue' = IF IsUpload(ctx[t]) THEN queue
                      ELSE FinalStatusUpdates(queue, work[t])
          /\ idx' = [idx EXCEPT ![t] = 0]
          /\ work' = [work EXCEPT ![t] = <<>>]
          /\ Return(t, TRUE)
          /\ UNCHANGED <<buf, sent>>
    /\ UNCHANGED <<processor_state, processing_lock, student_tracking,
                   current_assignment, now, nextId, ctx>>
    /\ UNCHANGED <<queue_file, temp_file, queue_lock, browser_session>>

RECURSIVE send_attempt(_, _, _)
\* send_with_retry from attempt number `attempt` on, where the first `fails`
\* calls of send_func raise: success returns True; a failure before the last
\* attempt sleeps retry_delay and tries again; the last failure returns False
send_attempt(attempt, fails, max_retries) ==
    IF attempt > fails
    THEN [ok |-> TRUE, tries |-> attempt, waited |-> SendRetryDelay * (attempt - 1)]
    ELSE IF attempt < max_retries
    THEN send_attempt(attempt + 1, fails, max_retries)
    ELSE [ok |-> FALSE, tries |-> attempt, waited |-> SendRetryDelay * (attempt - 1)]

\* a variant of send_with_retry that allows one attempt more
send_with_retry_OneMore(fails) == send_attempt(1, fails, SendMaxRetries + 1)

\* send_with_retry: the loop starts with attempt 1
send_with_retry(fails) == send_attempt(1, fails, SendMaxRetries)

\* the sends send_reports_to_user_queue makes for the files it was given
SendsMade(sim, ai) ==
    {m \in MessageKinds : \/ m = "similarity_report" /\ sim
                          \/ m = "ai_report" /\ ai
                          \/ m = "completion" /\ sim /\ ai}

\* download_reports_for_batch as above, with the sends followed attempt by
\* attempt: f[m] = how many calls of the send of kind m raise (the requester
\* is unreachable when all do); the thread's locals keep the attempts made
\* and the seconds slept for each kind
download_reports_for_batch_sending(t, maxFails) ==
    /\ pc[t] = "dl"
    /\ \/ \E k \in idx[t]..Len(work[t]) :
            /\ \A i \in idx[t]..(k - 1) : CanSkip(work[t][i], load_queue)
            /\ CanUpdate(work[t][k], load_queue)
            /\ buf' = [buf EXCEPT ![t] = update_queue_item_data(
                            load_queue, work[t][k].id, ItemUpdates(work[t][k]))]
            /\ idx' = [idx EXCEPT ![t] = k]
            /\ pc' = [pc EXCEPT ![t] = "dl_save"]
            /\ IF work[t][k].submission_title = NoTitle
               THEN UNCHANGED <<sent, loc>>
               ELSE \E o \in {<<TRUE, TRUE>>, <<TRUE, FALSE>>, <<FALSE, TRUE>>},
                       f \in [MessageKinds -> 0..maxFails] :
                       LET made == SendsMade(o[1], o[2])
                           r == [m \in MessageKinds |-> send_with_retry(f[m])]
                       IN  /\ sent' = sent \cup send_reports_to_user_queue(
                                   work[t][k].id, o[1], o[2],
                                   {m \in made : r[m].ok})
                           /\ loc' = [loc EXCEPT
                                 ![t].send_tries = [m \in MessageKinds |->
                                     IF m \in made THEN r[m].tries ELSE 0],
                                 ![t].send_waited = [m \in MessageKinds |->
                                     IF m \in made THEN r[m].waited ELSE 0]]
            /\ UNCHANGED <<queue, work>>
       \/ /\ \A i \in idx[t]..Len(work[t]) : CanSkip(work[t][i], load_queue)
          /\ queue' = IF IsUpload(ctx[t]) THEN queue
                      ELSE FinalStatusUpdates(queue, work[t])
          /\ idx' = [idx EXCEPT ![t] = 0]
          /\ work' = [work EXCEPT ![t] = <<>>]
          /\ Return(t, TRUE)
          /\ UNCHANGED <<buf, sent>>
    /\ UNCHANGED <<processor_state, processing_lock, student_tracking,
                   current_assignment, now, nextId, ctx>>
    /\ UNCHANGED <<queue_file, temp_file, queue_lock, browser_session>>

\* update_queue_item: save_queue, then the loop goes on
update_queue_item_save(t) ==
    /\ pc[t] = "dl_save"
    /\ queue' = buf[t]
    /\ buf' = [buf EXCEPT ![t] = <<>>]
    /\ idx' = [idx EXCEPT ![t] = idx[t] + 1]
    /\ pc' = [pc EXCEPT ![t] = "dl"]
    /\ UNCHANGED <<processor_state, processing_lock, student_tracking,
                   current_assignment, now, nextId, ctx, work, loc>>
    /\ UNCHANGED <<sent, queue_file, temp_file, queue_lock, browser_session>>

\* ------------------------------------------------------ the browser session
\* get_session_page called by thread t at `time`: the owner reuses the
\* session; another thread is refused with the busy error ("owned by
\* another thread") while the owner was active less than
\* SessionStaleSeconds ago; otherwise the session is force-reset or created
\* for t
get_session_page(bs, t, time) ==
    IF bs.owner = t
    THEN [busy |-> FALSE, session |-> [bs EXCEPT !.last_activity = time]]
    ELSE IF bs.owner # NoThread /\ time - bs.last_activity < SessionStaleSeconds
    THEN [busy |-> TRUE, session |-> bs]
    ELSE [busy |-> FALSE, session |-> [owner |-> t, last_activity |-> time]]

\* the session after a get_session_page of thread t that raised another
\* error than busy: a session of another thread was reset before the failed
\* creation
AfterFailedCreation(bs, t) == IF bs.owner = t THEN bs ELSE NoSession

\* the ids of a list of items
IdsOf(items) == {items[i].id : i \in 1..Len(items)}

\* process_dynamic_batch_documents: get_pending_items and the early return
initial_pending_items(t) ==
    /\ pc[t] = "pd_start"
    /\ loc[t].found = {}
    /\ ~loc[t].has_page
    /\ IF get_pending_items(load_queue) = <<>>
       THEN Return(t, TRUE)
       ELSE /\ loc' = [loc EXCEPT ![t].found = IdsOf(get_pending_items(load_queue)),
                                  ![t].attempt = 1]
            /\ UNCHANGED pc
    /\ UNCHANGED <<queue, processor_state, processing_lock, student_tracking,
                   current_assignment, now, nextId, ctx, work, idx, buf, sent,
                   queue_file, temp_file, queue_lock, browser_session>>

\* process_dynamic_batch_documents: one turn of the acquisition loop
acquire_session(t) ==
    /\ pc[t] = "pd_start"
    /\ loc[t].found # {}
    /\ ~loc[t].has_page
    /\ LET r == get_session_page(browser_session, t, now)
       IN  \/ /\ ~r.busy
              /\ browser_session' = r.session
              /\ loc' = [loc EXCEPT ![t].has_page = TRUE]
              /\ UNCHANGED pc
           \/ /\ r.busy
              /\ UNCHANGED browser_session
              /\ IF loc[t].attempt < MaxSessionRetries
                 THEN /\ loc' = [loc EXCEPT ![t].attempt = @ + 1]
                      /\ UNCHANGED pc
                 ELSE Return(t, FALSE)
           \/ /\ ~r.busy
              /\ browser_session' = AfterFailedCreation(browser_session, t)
              /\ Return(t, FALSE)
    /\ UNCHANGED <<queue, processor_state, processing_lock, student_tracking,
                   current_assignment, now, nextId, ctx, work, idx, buf, sent,
                   queue_file, temp_file, queue_lock>>

\* process_dynamic_batch_documents with the page: up to the return of
\* submit_batch; the get_session_page before submit_batch raises when the
\* session was taken over meanwhile
submit_with_session(t, maxRoster, maxForm) ==
    /\ pc[t] = "pd_start"
    /\ loc[t].has_page
    /\ LET r == get_session_page(browser_session, t, now)
       IN  IF r.busy
           THEN /\ Return(t, FALSE)
                /\ UNCHANGED <<queue, processor_state, processing_lock,
                               student_tracking, current_assignment, now, nextId,
                               ctx, work, idx, buf, sent, queue_file, temp_file,
                               queue_lock, browser_session>>
           ELSE /\ browser_session' = r.session
                /\ submit_dynamic_batch_with_queue_monitoring(t, maxRoster, maxForm)

\* download_pending_reports with its single get_session_page
download_with_session(t) ==
    /\ pc[t] = "dp_start"
    /\ LET r == get_session_page(browser_session, t, now)
       IN  IF work[t] = <<>> \/ r.busy
           THEN /\ Return(t, work[t] = <<>>)
                /\ UNCHANGED <<queue, processor_state, processing_lock,
                               student_tracking, current_assignment, now, nextId,
                               ctx, work, idx, buf, sent, queue_file, temp_file,
                               queue_lock, browser_session>>
           ELSE /\ browser_session' = r.session
                /\ navigate_to_inbox(t)

\* a variant of force_stop_processor that also clears the failure count
force_stop_processor_ClearsCount(t, maxCalls) ==
    /\ pc[t] = "idle"
    /\ loc[t].admin_calls < maxCalls
    /\ processor_state' = [processor_state EXCEPT !.is_running = FALSE,
                                                  !.failure_count = 0]
    /\ loc' = [loc EXCEPT ![t].admin_calls = @ + 1, ![t].cmd = "stop",
                          ![t].was_running = processor_state.is_running]
    /\ UNCHANGED <<queue, processing_lock, student_tracking, current_assignment,
                   now, nextId, pc, ctx, work, idx, buf>>
    /\ UNCHANGED <<sent, queue_file, temp_file, queue_lock, browser_session>>

\* force_stop_processor (admin command) called by thread t, which receives
\* was_running
force_stop_processor(t, maxCalls) ==
    /\ pc[t] = "idle"
    /\ loc[t].admin_calls < maxCalls
    /\ processor_state' = [processor_state EXCEPT !.is_running = FALSE]
    /\ loc' = [loc EXCEPT ![t].admin_calls = @ + 1, ![t].cmd = "stop",
                          ![t].was_running = processor_state.is_running]
    /\ UNCHANGED <<queue, processing_lock, student_tracking, current_assignment,
                   now, nextId, pc, ctx, work, idx, buf>>
    /\ UNCHANGED <<sent, queue_file, temp_file, queue_lock, browser_session>>

\* a variant of reset_circuit_breaker_call that leaves last_failure_time
reset_circuit_breaker_call_KeepsTime(t, maxCalls) ==
    /\ pc[t] = "idle"
    /\ loc[t].admin_calls < maxCalls
    /\ processor_state' = [processor_state EXCEPT !.failure_count = 0]
    /\ loc' = [loc EXCEPT ![t].admin_calls = @ + 1, ![t].cmd = "reset",
                          ![t].old_count = processor_state.failure_count]
    /\ UNCHANGED <<queue, processing_lock, student_tracking, current_assignment,
                   now, nextId, pc, ctx, work, idx, buf>>
    /\ UNCHANGED <<sent, queue_file, temp_file, queue_lock, browser_session>>

\* reset_circuit_breaker (admin command) called by thread t, which receives
\* old_count
reset_circuit_breaker_call(t, maxCalls) ==
    /\ pc[t] = "idle"
    /\ loc[t].admin_calls < maxCalls
    /\ processor_state' = [processor_state EXCEPT !.failure_count = 0,
                                                  !.last_failure_time = NoTime]
    /\ loc' = [loc EXCEPT ![t].admin_calls = @ + 1, ![t].cmd = "reset",
                          ![t].old_count = processor_state.failure_count]
    /\ UNCHANGED <<queue, processing_lock, student_tracking, current_assignment,
                   now, nextId, pc, ctx, work, idx, buf>>
    /\ UNCHANGED <<sent, queue_file, temp_file, queue_lock, browser_session>>

\* reset_circuit_breaker (admin command)
reset_circuit_breaker ==
    /\ processor_state.failure_count > 0 \/ processor_state.last_failure_time # NoTime
    /\ processor_state' = [processor_state EXCEPT !.failure_count = 0,
                                                  !.last_failure_time = NoTime]
    /\ UNCHANGED <<queue, processing_lock, student_tracking, current_assignment,
                   now, nextId, pc, ctx, work, idx, buf, loc>>
    /\ UNCHANGED <<sent, queue_file, temp_file, queue_lock, browser_session>>

\* ---------------------------------------------- the queue file, step by step
\* add_to_queue up to save_queue: a document without queue list raises and
\* None is returned
add_to_queue_load(t, maxItems) ==
    /\ pc[t] = "idle"
    /\ nextId <= maxItems
    /\ queue_lock = NoThread
    /\ nextId' = nextId + 1
    /\ LET d == load_queue_result(queue_file, queue)
       IN  IF d.has_queue
           THEN /\ buf' = [buf EXCEPT ![t] = Append(d.queue, NewItem(nextId, t))]
                /\ pc' = [pc EXCEPT ![t] = "sq_lock"]
           ELSE UNCHANGED <<buf, pc>>
    /\ UNCHANGED <<queue, processor_state, processing_lock, student_tracking,
                   current_assignment, now, ctx, work, idx, loc, sent,
                   queue_file, temp_file, queue_lock, browser_session>>

\* the updates the pipeline passes to update_queue_item
QueueUpdates ==
    {[status |-> "submitted"],
     [status |-> "completed", report_downloaded |-> TRUE],
     [status |-> "failed", error |-> TRUE]}

\* update_queue_item up to save_queue, for an item whose status changes
update_queue_item_load(t) ==
    /\ pc[t] = "idle"
    /\ queue_lock = NoThread
    /\ LET d == load_queue_result(queue_file, queue)
       IN  /\ d.has_queue
           /\ \E i \in 1..Len(d.queue) : \E u \in QueueUpdates :
                 /\ d.queue[i].status \notin {u.status, "completed", "failed"}
                 /\ buf' = [buf EXCEPT ![t] =
                               update_queue_item_data(d.queue, d.queue[i].id, u)]
    /\ pc' = [pc EXCEPT ![t] = "sq_lock"]
    /\ UNCHANGED <<queue, processor_state, processing_lock, student_tracking,
                   current_assignment, now, nextId, ctx, work, idx, loc, sent,
                   queue_file, temp_file, queue_lock, browser_session>>

\* save_queue: `with queue_lock`
save_queue_lock(t) ==
    /\ pc[t] = "sq_lock"
    /\ queue_lock = NoThread
    /\ queue_lock' = t
    /\ loc' = [loc EXCEPT ![t].before = load_queue, ![t].tries = 0]
    /\ pc' = [pc EXCEPT ![t] = "sq_temp"]
    /\ UNCHANGED <<queue, processor_state, processing_lock, student_tracking,
                   current_assignment, now, nextId, ctx, work, idx, buf, sent,
                   queue_file, temp_file, browser_session>>

\* save_queue: an attempt failed with PermissionError or OSError; the temp
\* file is removed and the attempt repeated, the third failure is raised
save_attempt_failed(t) ==
    /\ temp_file' = <<>>
    /\ IF loc[t].tries < MaxSaveRetries - 1
       THEN /\ loc' = [loc EXCEPT ![t].tries = @ + 1]
            /\ pc' = [pc EXCEPT ![t] = "sq_temp"]
            /\ UNCHANGED <<queue_lock, buf>>
       ELSE /\ loc' = [loc EXCEPT ![t].tries = 0, ![t].before = <<>>]
            /\ pc' = [pc EXCEPT ![t] = "idle"]
            /\ queue_lock' = NoThread
            /\ buf' = [buf EXCEPT ![t] = <<>>]

\* save_queue: mkstemp and json.dump into the temp file
save_queue_temp(t) ==
    /\ pc[t] = "sq_temp"
    /\ temp_file' = <<buf[t]>>
    /\ pc' = [pc EXCEPT ![t] = "sq_remove"]
    /\ UNCHANGED <<queue, processor_state, processing_lock, student_tracking,
                   current_assignment, now, nextId, ctx, work, idx, buf, loc,
                   sent, queue_file, queue_lock, browser_session>>

\* save_queue: os.remove(target_file) when it exists; a PermissionError is
\* passed over
save_queue_remove(t) ==
    /\ pc[t] = "sq_remove"
    /\ \/ /\ queue_file # "missing"
          /\ queue_file' = "missing"
          /\ queue' = <<>>
       \/ UNCHANGED <<queue_file, queue>>
    /\ pc' = [pc EXCEPT ![t] = "sq_rename"]
    /\ UNCHANGED <<processor_state, processing_lock, student_tracking,
                   current_assignment, now, nextId, ctx, work, idx, buf, loc,
                   sent, temp_file, queue_lock, browser_session>>

\* save_queue: os.rename(temp_file, target_file) and return; when the target
\* is still there the rename replaces it or, where the platform refuses
\* that, raises OSError
save_queue_rename(t) ==
    /\ pc[t] = "sq_rename"
    /\ \/ /\ queue' = temp_file[1]
          /\ queue_file' = "ok"
          /\ temp_file' = <<>>
          /\ queue_lock' = NoThread
          /\ buf' = [buf EXCEPT ![t] = <<>>]
          /\ loc' = [loc EXCEPT ![t].before = <<>>, ![t].tries = 0]
          /\ pc' = [pc EXCEPT ![t] = "idle"]
       \/ /\ queue_file # "missing"
          /\ save_attempt_failed(t)
          /\ UNCHANGED <<queue, queue_file>>
    /\ UNCHANGED <<processor_state, processing_lock, student_tracking,
                   current_assignment, now, nextId, ctx, work, idx, sent,
                   browser_session>>

\* a variant of read_queue that does not take queue_lock
read_queue_NoLock(t) ==
    /\ pc[t] = "idle"
    /\ loc' = [loc EXCEPT ![t].seen = queue_file,
                          ![t].loaded = load_queue_result(queue_file, queue),
                          ![t].listed = list_items(queue_file, queue)]
    /\ UNCHANGED <<queue, processor_state, processing_lock, student_tracking,
                   current_assignment, now, nextId, pc, ctx, work, idx, buf,
                   sent, queue_file, temp_file, queue_lock, browser_session>>

\* a reader: load_queue, get_pending_items and get_submitted_items, each
\* under queue_lock, on the file as it is
read_queue(t) ==
    /\ pc[t] = "idle"
    /\ queue_lock = NoThread
    /\ loc' = [loc EXCEPT ![t].seen = queue_file,
                          ![t].loaded = load_queue_result(queue_file, queue),
                          ![t].listed = list_items(queue_file, queue)]
    /\ UNCHANGED <<queue, processor_state, processing_lock, student_tracking,
                   current_assignment, now, nextId, pc, ctx, work, idx, buf,
                   sent, queue_file, temp_file, queue_lock, browser_session>>

\* the file is deleted, made unreadable or overwritten from outside
external_file_event ==
    /\ queue_lock = NoThread
    /\ \E f \in FileConditions \ {"ok", queue_file} :
          /\ queue_file' = f
          /\ queue' = IF f = "unreadable" /\ queue_file = "ok" THEN queue ELSE <<>>
    /\ UNCHANGED <<processor_state, processing_lock, student_tracking,
                   current_assignment, now, nextId, pc, ctx, work, idx, buf, loc,
                   sent, temp_file, queue_lock, browser_session>>

\* the process dies; the files stay as they are
crash ==
    /\ \E t \in Threads : pc[t] # "crashed"
    /\ pc' = [t \in Threads |-> "crashed"]
    /\ loc' = [t \in Threads |-> [loc[t] EXCEPT !.crashed_in = pc[t]]]
    /\ queue_lock' = NoThread
    /\ UNCHANGED <<queue, processor_state, processing_lock, student_tracking,
                   current_assignment, now, nextId, ctx, work, idx, buf, sent,
                   queue_file, temp_file, browser_session>>

\* one thread that writes the queue file
WriterStep(t) ==
    \/ add_to_queue_load(t, MaxFileItems)
    \/ update_queue_item_load(t)
    \/ save_queue_lock(t)
    \/ save_queue_temp(t)
    \/ save_queue_remove(t)
    \/ save_queue_rename(t)

\* a writer and a process that can die at any point
NextCrash == WriterStep(1) \/ crash

SpecCrash == Init /\ [][NextCrash]_vars

\* a writer, a reader and a file that is damaged from outside
NextDegrade == WriterStep(1) \/ read_queue(2) \/ external_file_event

SpecDegrade == Init /\ [][NextDegrade]_vars

\* a writer and a reader of one process
NextReaders == WriterStep(1) \/ read_queue(2)

SpecReaders == Init /\ [][NextReaders]_vars

ThreadStep(t) ==
    \/ add_to_queue(t, MaxItems)
    \/ add_to_queue_save(t)
    \/ start_immediate_processing(t)
    \/ sip_check(t)
    \/ sip_finish(t)
    \/ cleanup_if_idle(t)
    \/ remove_completed_items_save(t)
    \/ cleanup_check(t)
    \/ cleanup_finish(t)
    \/ process_dynamic_batch_documents(t, NumStudents, MaxForm)
    \/ write_back_load(t)
    \/ write_back_save(t)
    \/ download_pending_reports(t)
    \/ download_reports_for_batch(t, SmoothDelivery)
    \/ update_queue_item_save(t)

Next ==
    \/ \E t \in Threads : ThreadStep(t)
    \/ Tick
    \/ reset_circuit_breaker

\* two threads enqueue and trigger the processor concurrently
Spec == Init /\ [][Next]_vars

\* ------------------------------------------- one worker, a queue already filled
\* a student's three submissions recorded at time 0
FullQuota ==
    [k \in 1..StudentCap |->
        [timestamp |-> 0, title |-> generate_submission_title(0, k)]]

\* student_tracking.json before the pass: no entry for the assignment, or a
\* roster of n students of which the first u have spent their quota
TrackingStates ==
    {[a \in Assignments |-> [present |-> FALSE, students |-> <<>>,
                             submissions |-> [s \in StudentIds |-> <<>>]]]}
    \cup
    UNION {{[a \in Assignments |->
                [present |-> TRUE, students |-> PageStudents(n),
                 submissions |-> [s \in StudentIds |->
                                    IF s <= u THEN FullQuota ELSE <<>>]]] :
            u \in 0..n} : n \in 1..BatchStudents}

\* q files were enqueued (add_to_queue by user 1) and none was processed yet
InitBatch ==
    /\ \E q \in 1..BatchItems :
          /\ queue = [i \in 1..q |-> NewItem(i, 1)]
          /\ nextId = q + 1
    /\ student_tracking \in TrackingStates
    /\ processor_state = [is_running |-> FALSE, failure_count |-> 0,
                          last_failure_time |-> NoTime]
    /\ processing_lock = NoThread
    /\ current_assignment = 1
    /\ now = 0
    /\ pc = [t \in Threads |-> "idle"]
    /\ ctx = [t \in Threads |-> "none"]
    /\ work = [t \in Threads |-> <<>>]
    /\ idx = [t \in Threads |-> 0]
    /\ buf = [t \in Threads |-> <<>>]
    /\ loc = [t \in Threads |-> EmptyLoc]
    /\ sent = {}
    /\ queue_file = "ok"
    /\ temp_file = <<>>
    /\ queue_lock = NoThread
    /\ browser_session = NoSession

\* no upload pass has submitted yet (the write-back marks its whole batch)
\* and none has failed yet
FirstUpload ==
    /\ \A i \in 1..Len(queue) : queue[i].status = "pending"
    /\ processor_state.failure_count = 0

\* the worker thread's steps on the larger page; the behaviour is followed
\* through its first upload pass and what follows it
WorkerStep(t) ==
    \/ start_immediate_processing(t)
    \/ sip_check(t)
    \/ sip_finish(t)
    \/ cleanup_if_idle(t)
    \/ remove_completed_items_save(t)
    \/ cleanup_check(t)
    \/ cleanup_finish(t)
    \/ FirstUpload /\ process_dynamic_batch_documents(t, BatchStudents, BatchForm)
    \/ write_back_load(t)
    \/ write_back_save(t)
    \/ download_pending_reports(t)
    \/ download_reports_for_batch(t, SmoothDelivery)
    \/ update_queue_item_save(t)

NextBatch == WorkerStep(1)

\* one worker thread processes a queue of up to BatchItems files
SpecBatch == InitBatch /\ [][NextBatch]_vars

\* ------------------------------------- one worker, quotas partly spent
\* p submissions of a student recorded at time 0
SpentQuota(p) ==
    [k \in 1..p |-> [timestamp |-> 0, title |-> generate_submission_title(0, k)]]

\* q files are pending; the roster is tracked and every student has spent
\* the same part of the quota
InitQuota ==
    /\ \E q \in 1..BatchItems :
          /\ queue = [i \in 1..q |-> NewItem(i, 1)]
          /\ nextId = q + 1
    /\ \E p \in 0..StudentCap :
          student_tracking =
              [a \in Assignments |->
                  [present |-> TRUE, students |-> PageStudents(BatchStudents),
                   submissions |-> [s \in StudentIds |-> SpentQuota(p)]]]
    /\ processor_state = [is_running |-> FALSE, failure_count |-> 0,
                          last_failure_time |-> NoTime]
    /\ processing_lock = NoThread
    /\ current_assignment = 1
    /\ now = 0
    /\ pc = [t \in Threads |-> "idle"]
    /\ ctx = [t \in Threads |-> "none"]
    /\ work = [t \in Threads |-> <<>>]
    /\ idx = [t \in Threads |-> 0]
    /\ buf = [t \in Threads |-> <<>>]
    /\ loc = [t \in Threads |-> EmptyLoc]
    /\ sent = {}
    /\ queue_file = "ok"
    /\ temp_file = <<>>
    /\ queue_lock = NoThread
    /\ browser_session = NoSession

NextQuota == WorkerStep(1)

\* one worker thread processes the queue against partly spent quotas
SpecQuota == InitQuota /\ [][NextQuota]_vars

\* ------------------------------------------ one worker, one enqueueing handler
\* the worker thread's steps (queue_processor and what it calls)
ProcessorStep(t) ==
    \/ start_immediate_processing(t)
    \/ sip_check(t)
    \/ sip_finish(t)
    \/ cleanup_if_idle(t)
    \/ remove_completed_items_save(t)
    \/ cleanup_check(t)
    \/ cleanup_finish(t)
    \/ process_dynamic_batch_documents(t, NumStudents, MaxForm)
    \/ write_back_load(t)
    \/ write_back_save(t)
    \/ download_pending_reports(t)
    \/ download_reports_for_batch(t, SmoothDelivery)
    \/ update_queue_item_save(t)

\* the chat handler's steps
HandlerStep(t) ==
    \/ add_to_queue(t, IntakeItems)
    \/ add_to_queue_save(t)

NextIntake ==
    \/ ProcessorStep(1)
    \/ HandlerStep(2)
    \/ Tick

\* thread 1 is the only worker, thread 2 only enqueues
SpecIntake == Init /\ [][NextIntake]_vars

\* both threads are scheduled: neither is ready to step forever without
\* stepping (the sleeps and the site's waits are all finite)
SpecLoop ==
    /\ Init
    /\ [][NextIntake]_vars
    /\ WF_vars(ProcessorStep(1))
    /\ WF_vars(HandlerStep(2))

\* ------------------------------------- the score poller, attempt by attempt
\* the worker thread's steps with the polling loop followed attempt by attempt
PollingStep(t) ==
    \/ start_immediate_processing(t)
    \/ sip_check(t)
    \/ sip_finish(t)
    \/ cleanup_if_idle(t)
    \/ remove_completed_items_save(t)
    \/ cleanup_check(t)
    \/ cleanup_finish(t)
    \/ process_dynamic_batch_documents(t, NumStudents, MaxForm)
    \/ write_back_load(t)
    \/ save_submission_details(t)
    \/ wait_for_similarity_scores(t, DefaultMaxWaitMinutes)
    \/ download_pending_reports(t)
    \/ download_reports_for_batch(t, SmoothDelivery)
    \/ update_queue_item_save(t)

NextPoll ==
    \/ PollingStep(1)
    \/ HandlerStep(2)

\* thread 1 is the only worker, thread 2 only enqueues
SpecPoll == Init /\ [][NextPoll]_vars

\* ------------------------------------------ what reaches the requester's chat
\* the worker thread's steps with every outcome of the downloads and sends
NotifyStep(t) ==
    \/ start_immediate_processing(t)
    \/ sip_check(t)
    \/ sip_finish(t)
    \/ cleanup_if_idle(t)
    \/ remove_completed_items_save(t)
    \/ cleanup_check(t)
    \/ cleanup_finish(t)
    \/ process_dynamic_batch_documents(t, NumStudents, MaxForm)
    \/ write_back_load(t)
    \/ write_back_save(t)
    \/ download_pending_reports(t)
    \/ download_reports_for_batch(t, DeliveryOutcomes)
    \/ update_queue_item_save(t)

NextNotify ==
    \/ NotifyStep(1)
    \/ HandlerStep(2)
    \/ Tick

\* thread 1 is the only worker, thread 2 only enqueues
SpecNotify == Init /\ [][NextNotify]_vars

\* --------------------------------------------- the sends, attempt by attempt
\* SendItems files are queued and the roster of SendItems students is
\* tracked, none of them used
InitSend ==
    /\ queue = [i \in 1..SendItems |-> NewItem(i, i)]
    /\ nextId = SendItems + 1
    /\ student_tracking = [a \in Assignments |->
            [present |-> TRUE, students |-> PageStudents(SendItems),
             submissions |-> [s \in StudentIds |-> <<>>]]]
    /\ processor_state = [is_running |-> FALSE, failure_count |-> 0,
                          last_failure_time |-> NoTime]
    /\ processing_lock = NoThread
    /\ current_assignment = 1
    /\ now = 0
    /\ pc = [t \in Threads |-> "idle"]
    /\ ctx = [t \in Threads |-> "none"]
    /\ work = [t \in Threads |-> <<>>]
    /\ idx = [t \in Threads |-> 0]
    /\ buf = [t \in Threads |-> <<>>]
    /\ loc = [t \in Threads |-> EmptyLoc]
    /\ sent = {}
    /\ queue_file = "ok"
    /\ temp_file = <<>>
    /\ queue_lock = NoThread
    /\ browser_session = NoSession

\* the worker's steps through its first upload pass, the sends followed
\* attempt by attempt
NextSend ==
    \/ start_immediate_processing(1)
    \/ sip_check(1)
    \/ sip_finish(1)
    \/ cleanup_if_idle(1)
    \/ remove_completed_items_save(1)
    \/ cleanup_check(1)
    \/ cleanup_finish(1)
    \/ FirstUpload /\ process_dynamic_batch_documents(1, SendItems, SendItems)
    \/ write_back_load(1)
    \/ write_back_save(1)
    \/ download_pending_reports(1)
    \/ download_reports_for_batch_sending(1, MaxSendFailures)
    \/ update_queue_item_save(1)

\* one worker thread processes SendItems files of as many requesters
SpecSend == InitSend /\ [][NextSend]_vars

\* ------------------------------------------- two workers, one browser session
\* q files were enqueued and none was processed yet; no browser session
\* exists
InitSession ==
    /\ \E q \in 1..SessionItems :
          /\ queue = [i \in 1..q |-> NewItem(i, 1)]
          /\ nextId = q + 1
    /\ student_tracking = [a \in Assignments |->
            [present |-> FALSE, students |-> <<>>,
             submissions |-> [s \in StudentIds |-> <<>>]]]
    /\ processor_state = [is_running |-> FALSE, failure_count |-> 0,
                          last_failure_time |-> NoTime]
    /\ processing_lock = NoThread
    /\ current_assignment = 1
    /\ now = 0
    /\ pc = [t \in Threads |-> "idle"]
    /\ ctx = [t \in Threads |-> "none"]
    /\ work = [t \in Threads |-> <<>>]
    /\ idx = [t \in Threads |-> 0]
    /\ buf = [t \in Threads |-> <<>>]
    /\ loc = [t \in Threads |-> EmptyLoc]
    /\ sent = {}
    /\ queue_file = "ok"
    /\ temp_file = <<>>
    /\ queue_lock = NoThread
    /\ browser_session = NoSession

\* the behaviour is followed while fewer than SessionFailures passes failed
FewFailures == processor_state.failure_count < SessionFailures

\* a trigger thread's steps, with the session acquisitions of its passes
SessionStep(t) ==
    \/ start_immediate_processing(t)
    \/ sip_check(t)
    \/ sip_finish(t)
    \/ cleanup_if_idle(t)
    \/ remove_completed_items_save(t)
    \/ cleanup_check(t)
    \/ cleanup_finish(t)
    \/ FewFailures /\ initial_pending_items(t)
    \/ acquire_session(t)
    \/ submit_with_session(t, NumStudents, MaxForm)
    \/ write_back_load(t)
    \/ write_back_save(t)
    \/ FewFailures /\ download_with_session(t)
    \/ download_reports_for_batch(t, SmoothDelivery)
    \/ update_queue_item_save(t)

\* the clock of the session specification
SessionTick == Advance(SessionStep_Seconds, SessionMaxTime)

NextSession ==
    \/ \E t \in Threads : SessionStep(t)
    \/ SessionTick

\* two threads trigger the processor; the queue is filled beforehand
SpecSession == InitSession /\ [][NextSession]_vars

\* ------------------------------------------------- a worker and the admin
\* the admin's steps: the two commands, and a trigger followed up to the
\* breaker test
AdminStep(t) ==
    \/ force_stop_processor(t, MaxAdminCalls)
    \/ reset_circuit_breaker_call(t, MaxAdminCalls)
    \/ start_immediate_processing(t)
    \/ sip_check(t)

\* the worker's steps; it is triggered before the admin steps in, and its
\* re-check loop goes on afterwards
NextAdmin ==
    \/ loc[2].admin_calls = 0 /\ start_immediate_processing(1)
    \/ sip_check(1)
    \/ sip_finish(1)
    \/ cleanup_if_idle(1)
    \/ remove_completed_items_save(1)
    \/ cleanup_check(1)
    \/ cleanup_finish(1)
    \/ process_dynamic_batch_documents(1, NumStudents, MaxForm)
    \/ write_back_load(1)
    \/ write_back_save(1)
    \/ download_pending_reports(1)
    \/ download_reports_for_batch(1, SmoothDelivery)
    \/ update_queue_item_save(1)
    \/ AdminStep(2)
    \/ Tick

\* thread 1 works on a queued file, thread 2 is the admin
SpecAdmin == InitSession /\ [][NextAdmin]_vars

\* processor_state["failure_count"] += 1 as the interpreter runs it: the
\* value is read first (has_read, count_read) and the sum is stored in a
\* later step
failure_count_read(t) ==
    /\ pc[t] \in {"sip_finish", "cl_finish"}
    /\ IsUpload(ctx[t])
    /\ ~loc[t].ret
    /\ ~loc[t].has_read
    /\ processor_state.failure_count < MaxFailureCount
    /\ loc' = [loc EXCEPT ![t].has_read = TRUE,
                          ![t].count_read = processor_state.failure_count]
    /\ UNCHANGED <<queue, processor_state, processing_lock, student_tracking,
                   current_assignment, now, nextId, pc, ctx, work, idx, buf>>
    /\ UNCHANGED <<sent, queue_file, temp_file, queue_lock, browser_session>>

\* the store of the sum, last_failure_time, the finally blocks and the call
\* of cleanup_if_idle
failure_count_store(t) ==
    /\ pc[t] \in {"sip_finish", "cl_finish"}
    /\ loc[t].has_read
    /\ processor_state' = [processor_state EXCEPT
                              !.failure_count = loc[t].count_read + 1,
                              !.last_failure_time = now,
                              !.is_running = FALSE]
    /\ processing_lock' = IF pc[t] = "sip_finish" THEN NoThread
                          ELSE processing_lock
    /\ ctx' = [ctx EXCEPT ![t] = "none"]
    /\ work' = [work EXCEPT ![t] = IF pc[t] = "cl_finish" THEN <<>> ELSE @]
    /\ pc' = [pc EXCEPT ![t] = "cl_start"]
    /\ loc' = [loc EXCEPT ![t] = [EmptyLoc EXCEPT !.sip = loc[t].sip]]
    /\ UNCHANGED <<queue, student_tracking, current_assignment, now, nextId,
                   idx, buf>>
    /\ UNCHANGED <<sent, queue_file, temp_file, queue_lock, browser_session>>

\* the pass of thread t did not fail, so that no sum is to be stored
NoFailureToCount(t) == loc[t].ret \/ ~IsUpload(ctx[t])

\* the worker's steps with the failure count read and stored in two steps,
\* and the admin's resets
NextCount ==
    \/ loc[2].admin_calls = 0 /\ start_immediate_processing(1)
    \/ sip_check(1)
    \/ NoFailureToCount(1) /\ sip_finish(1)
    \/ failure_count_read(1)
    \/ failure_count_store(1)
    \/ cleanup_if_idle(1)
    \/ remove_completed_items_save(1)
    \/ cleanup_check(1)
    \/ NoFailureToCount(1) /\ cleanup_finish(1)
    \/ process_dynamic_batch_documents(1, NumStudents, MaxForm)
    \/ write_back_load(1)
    \/ write_back_save(1)
    \/ download_pending_reports(1)
    \/ download_reports_for_batch(1, SmoothDelivery)
    \/ update_queue_item_save(1)
    \/ reset_circuit_breaker_call(2, MaxAdminCalls)
    \/ Tick

\* thread 1 works on a queued file, thread 2 is the admin who resets the
\* breaker
SpecCount == InitSession /\ [][NextCount]_vars

\* --------------------------------------------- rotation through the buckets
\* an assignment bucket of student_tracking.json: without data, with its one
\* student at the limit, or with its one student free
BucketKinds == {"absent", "spent", "free"}

Bucket(kind) ==
    [present |-> kind # "absent",
     students |-> IF kind = "absent" THEN <<>> ELSE PageStudents(1),
     submissions |-> [s \in StudentIds |->
                        IF kind = "spent" /\ s = 1 THEN FullQuota ELSE <<>>]]

\* the first e buckets are spent, then one bucket of kind k, the others of
\* kind r
RotateTracking ==
    {[a \in 1..RotateBuckets |->
         Bucket(IF a <= e THEN "spent" ELSE IF a = e + 1 THEN k ELSE r)] :
     e \in 0..RotateBuckets, k \in BucketKinds, r \in BucketKinds}

\* one file is queued and the tracking file holds RotateBuckets buckets
InitRotate ==
    /\ queue = <<NewItem(1, 1)>>
    /\ nextId = 2
    /\ student_tracking \in RotateTracking
    /\ current_assignment \in 1..RotateStart
    /\ processor_state = [is_running |-> FALSE, failure_count |-> 0,
                          last_failure_time |-> NoTime]
    /\ processing_lock = NoThread
    /\ now = 0
    /\ pc = [t \in Threads |-> "idle"]
    /\ ctx = [t \in Threads |-> "none"]
    /\ work = [t \in Threads |-> <<>>]
    /\ idx = [t \in Threads |-> 0]
    /\ buf = [t \in Threads |-> <<>>]
    /\ loc = [t \in Threads |-> EmptyLoc]
    /\ sent = {}
    /\ queue_file = "ok"
    /\ temp_file = <<>>
    /\ queue_lock = NoThread
    /\ browser_session = NoSession

NextRotate == ProcessorStep(1)

\* one worker thread processes the file, rotating where the bucket is spent
SpecRotate == InitRotate /\ [][NextRotate]_vars

\* ------------------------------------------------- titles of real inputs
\* the (user_id, timestamp) pairs the queued items are drawn from
TitleInputs == DOMAIN Md5Prefix

\* add_to_queue's item for a given user id and enqueue instant
TitledItem(id, input) ==
    [NewItem(id, input[1]) EXCEPT !.timestamp = input[2]]

\* two files are queued, by any two distinct inputs in enqueue order
InitTitle ==
    /\ \E p1 \in TitleInputs, p2 \in TitleInputs :
          /\ p1 # p2
          /\ p1[2] <= p2[2]
          /\ queue = <<TitledItem(1, p1), TitledItem(2, p2)>>
    /\ nextId = 3
    /\ student_tracking \in TrackingStates
    /\ current_assignment = 1
    /\ processor_state = [is_running |-> FALSE, failure_count |-> 0,
                          last_failure_time |-> NoTime]
    /\ processing_lock = NoThread
    /\ now = 0
    /\ pc = [t \in Threads |-> "idle"]
    /\ ctx = [t \in Threads |-> "none"]
    /\ work = [t \in Threads |-> <<>>]
    /\ idx = [t \in Threads |-> 0]
    /\ buf = [t \in Threads |-> <<>>]
    /\ loc = [t \in Threads |-> EmptyLoc]
    /\ sent = {}
    /\ queue_file = "ok"
    /\ temp_file = <<>>
    /\ queue_lock = NoThread
    /\ browser_session = NoSession

NextTitle == WorkerStep(1)

\* one worker thread uploads the two files and fetches their reports
SpecTitle == InitTitle /\ [][NextTitle]_vars

\* ------------------------------------------------- the re-check on its own
\* a queue item as the write-back leaves it: submitted at time `at` for
\* student 1 of bucket 1
SubmittedItem(id, at) ==
    [NewItem(id, 1) EXCEPT !.status = "submitted", !.submitted_at = at,
                           !.student_id = 1, !.assignment = 1,
                           !.submission_title = generate_submission_title(1, id)]

\* the queue holds o items submitted a day ago, then r items submitted just
\* now, then p pending items; student 1's tracked submissions are those of
\* the submitted items
InitRecheck ==
    /\ now = WindowSeconds
    /\ \E o \in 0..RecheckItems, r \in 0..StudentCap, p \in 0..RecheckItems :
          /\ o + r + p \in 1..RecheckItems
          /\ queue = [i \in 1..(o + r + p) |->
                        IF i <= o THEN SubmittedItem(i, 0)
                        ELSE IF i <= o + r THEN SubmittedItem(i, now)
                        ELSE NewItem(i, 1)]
          /\ nextId = o + r + p + 1
          /\ student_tracking = [a \in Assignments |->
                IF a = 1
                THEN [present |-> TRUE, students |-> PageStudents(NumStudents),
                      submissions |-> [s \in StudentIds |->
                          IF s = 1
                          THEN [i \in 1..(o + r) |->
                                  [timestamp |-> IF i <= o THEN 0 ELSE now,
                                   title |-> generate_submission_title(1, i)]]
                          ELSE <<>>]]
                ELSE [present |-> FALSE, students |-> <<>>,
                      submissions |-> [s \in StudentIds |-> <<>>]]]
    /\ current_assignment = 1
    /\ processor_state = [is_running |-> FALSE, failure_count |-> 0,
                          last_failure_time |-> NoTime]
    /\ processing_lock = NoThread
    /\ pc = [t \in Threads |-> "idle"]
    /\ ctx = [t \in Threads |-> "none"]
    /\ work = [t \in Threads |-> <<>>]
    /\ idx = [t \in Threads |-> 0]
    /\ buf = [t \in Threads |-> <<>>]
    /\ loc = [t \in Threads |-> EmptyLoc]
    /\ sent = {}
    /\ queue_file = "ok"
    /\ temp_file = <<>>
    /\ queue_lock = NoThread
    /\ browser_session = NoSession

NextRecheck == ProcessorStep(1)

\* one worker thread is triggered and re-checks the queue until it is idle
SpecRecheck == InitRecheck /\ [][NextRecheck]_vars

\* ------------------------------------ the re-check with the site reachable
\* get_session_page gives a page and the navigation to the inbox succeeds
SiteReachable(t) == pc[t] = "dp_start" /\ work[t] # <<>> => pc'[t] = "dl"

NextLater == ProcessorStep(1) /\ SiteReachable(1)

\* every item of the queue was left submitted by an earlier pass, and the
\* current bucket has an available student, so that the inbox visited is
\* the one the items were submitted to
InitLater ==
    /\ InitRecheck
    /\ \A i \in 1..Len(queue) : queue[i].status = "submitted"
    /\ Usable(student_tracking, current_assignment, now)

\* the worker re-checks a queue of items left submitted by earlier passes; it
\* is scheduled whenever it has a step to take, and the site stays reachable
SpecLater == InitLater /\ [][NextLater]_vars /\ WF_vars(NextLater)

\* ------------------------------------------------- the rate limit on its own
\* the roster is tracked and nothing was submitted yet
InitRate ==
    /\ queue = <<>>
    /\ processor_state = [is_running |-> FALSE, failure_count |-> 0,
                          last_failure_time |-> NoTime]
    /\ processing_lock = NoThread
    /\ student_tracking = [a \in Assignments |->
            [present |-> TRUE, students |-> PageStudents(RateStudents),
             submissions |-> [s \in StudentIds |-> <<>>]]]
    /\ current_assignment = 1
    /\ now = 0
    /\ nextId = 1
    /\ pc = [t \in Threads |-> "idle"]
    /\ ctx = [t \in Threads |-> "none"]
    /\ work = [t \in Threads |-> <<>>]
    /\ idx = [t \in Threads |-> 0]
    /\ buf = [t \in Threads |-> <<>>]
    /\ loc = [t \in Threads |-> EmptyLoc]
    /\ sent = {}
    /\ queue_file = "ok"
    /\ temp_file = <<>>
    /\ queue_lock = NoThread
    /\ browser_session = NoSession

\* a call of get_available_students(assignment_name)
lookup_available_students(t) ==
    /\ loc' = [loc EXCEPT
                 ![t].students = get_available_students(
                                     student_tracking, current_assignment, now).list,
                 ![t].at = now]
    /\ UNCHANGED <<queue, processor_state, processing_lock, student_tracking,
                   current_assignment, now, nextId, pc, ctx, work, idx, buf>>
    /\ UNCHANGED <<sent, queue_file, temp_file, queue_lock, browser_session>>

RECURSIVE RecordTimes(_, _, _, _, _)
\* k calls of add_student_submission for student s
RecordTimes(tracking, a, s, k, t) ==
    IF k = 0 THEN tracking
    ELSE RecordTimes(add_student_submission(tracking, a, s, <<s, t>>, t),
                     a, s, k - 1, t)

\* what one submit_batch records against a student of the list it was
\* given: one submission, or two when the top-up loop selects the student
\* of an earlier slot again
record_submissions(t) ==
    /\ loc[t].at = now
    /\ \E i \in 1..Len(loc[t].students) : \E k \in 1..2 :
          LET s == loc[t].students[i]
          IN  /\ Len(student_tracking[current_assignment].submissions[s]) + k
                     <= RateMaxSubs
              /\ student_tracking' = RecordTimes(student_tracking,
                                                 current_assignment, s, k, now)
    /\ loc' = [loc EXCEPT ![t].students = <<>>, ![t].at = NoTime]
    /\ UNCHANGED <<queue, processor_state, processing_lock, current_assignment,
                   now, nextId, pc, ctx, work, idx, buf>>
    /\ UNCHANGED <<sent, queue_file, temp_file, queue_lock, browser_session>>

NextRate ==
    \/ lookup_available_students(1)
    \/ record_submissions(1)
    \/ Advance(RateStep, RateMaxTime)

\* submissions are recorded and availability is looked up as time passes
SpecRate == InitRate /\ [][NextRate]_vars

\* ---------------------------------------------------------------- properties
\* C1: single-flight -- at any moment at most one thread is executing a
\* batch-processing pass (process_dynamic_batch_documents or
\* download_pending_reports), the passes started from cleanup_if_idle included
C1_SingleFlight == Cardinality({t \in Threads : InPass(t)}) <= 1

\* C2: circuit breaker -- while the breaker is active (failure_count >= 5,
\* cooldown not elapsed, no reset), a start_immediate_processing call that
\* was refused by it executes no pass, its cleanup_if_idle continuation
\* included
C2_RefusedCallRunsNoPass ==
    \A t \in Threads :
        loc[t].sip = "breaker" /\ BreakerActive(processor_state, now) => ~InPass(t)

\* position of a status on the chain pending -> processing -> submitted ->
\* completed
StatusRank(st) ==
    CASE st = "pending" -> 0
      [] st = "processing" -> 1
      [] st = "submitted" -> 2
      [] st = "completed" -> 3
      [] OTHER -> 4

\* one change of a persisted status that the chain allows
ForwardOrSame(old, new) ==
    IF old = "failed" THEN new = "failed"
    ELSE new = "failed" \/ StatusRank(new) >= StatusRank(old)

\* C3: monotonic status -- every save of the queue moves each item's
\* persisted status forward along pending -> processing -> submitted ->
\* completed or to failed, never back, and never away from failed
C3_MonotonicStatus ==
    [][\A i \in 1..Len(queue) : \A k \in 1..Len(queue') :
          queue[i].id = queue'[k].id
              => ForwardOrSame(queue[i].status, queue'[k].status)]_vars

\* the step in which thread t's upload pass returns after submit_batch
\* succeeded
SubmittedPassEnds(t) ==
    /\ IsUpload(ctx[t])
    /\ InPass(t)
    /\ loc[t].site.reached
    /\ pc'[t] \in {"sip_finish", "cl_finish"}

\* C4: partial failure isolation -- in a batch of 3 items with 3 usable form
\* slots and 3 available identities where only the field filling of item 2
\* throws, the pass is not aborted and when it ends the durable queue has
\* items 1 and 3 submitted (or already completed) and item 2 failed with a
\* stored reason
C4_PartialFailureIsolation ==
    [][(/\ SubmittedPassEnds(1)
        /\ loc[1].queued = 3
        /\ loc[1].site.fails = {2}
        /\ loc[1].site.max_form >= 3
        /\ loc[1].avail >= 3)
       => (/\ queue'[1].status \in {"submitted", "completed"}
           /\ queue'[2].status = "failed" /\ queue'[2].error
           /\ queue'[3].status \in {"submitted", "completed"})]_vars

\* number of queue items whose persisted status is in sts
CountStatus(q, sts) == Cardinality({i \in 1..Len(q) : q[i].status \in sts})

\* C5: capacity -- a pass with f usable form slots, s available identities
\* and q queued items ends with min(f, s, q) items submitted (completed ones
\* counted as submitted)
C5_CapacityInvariant ==
    [][SubmittedPassEnds(1)
       => CountStatus(queue', {"submitted", "completed"})
              = Min3(loc[1].site.max_form, loc[1].avail, loc[1].queued)]_vars

\* C7: items beyond capacity stay pending -- when more files are queued than
\* the pass can submit, exactly capacity-many items become submitted
\* (or completed) and every other item keeps status pending, whether the
\* student list was tracked before the pass or extracted during it
C7_BeyondCapacityStayPending ==
    [][(/\ SubmittedPassEnds(1)
        /\ loc[1].queued > Min2(loc[1].site.max_form, loc[1].avail))
       => (/\ CountStatus(queue', {"submitted", "completed"})
                = Min2(loc[1].site.max_form, loc[1].avail)
           /\ CountStatus(queue', {"pending"})
                = loc[1].queued - Min2(loc[1].site.max_form, loc[1].avail))]_vars

\* the files (titles) recorded against student s of assignment a by the
\* pass; the quota records present before the pass carry user 0
FilesRecorded(a, s) ==
    {student_tracking[a].submissions[s][k].title :
        k \in {j \in 1..Len(student_tracking[a].submissions[s]) :
                  student_tracking[a].submissions[s][j].title[1]
                      # user_part(0)}}

\* C6: no identity is used more than once per batch -- within one
\* submit_batch transaction (per-slot loop plus top-up loop) every student
\* has submissions recorded for at most one file
C6_IdentityUsedOnce ==
    \A a \in Assignments : \A s \in StudentIds :
        Cardinality(FilesRecorded(a, s)) <= 1

\* the submissions of student s that are inside the trailing 24 hours at t,
\* as positions of the student's list
InsideWindow(s, t) ==
    {k \in 1..Len(student_tracking[current_assignment].submissions[s]) :
        /\ student_tracking[current_assignment].submissions[s][k].timestamp
              > t - WindowSeconds}

\* the oldest timestamp among those submissions
OldestInside(s, t) ==
    LET ts == {student_tracking[current_assignment].submissions[s][k].timestamp :
                  k \in InsideWindow(s, t)}
    IN  CHOOSE x \in ts : \A y \in ts : x <= y

Listed(s, list) == \E i \in 1..Len(list) : list[i] = s

\* C8: rate limit -- (first half) get_available_students leaves out a
\* student exactly when 3 or more of the student's recorded submissions are
\* inside the trailing 24 hours
C8_ExcludedExactlyAtCap ==
    \A s \in 1..RateStudents :
        loc[1].at = now =>
            (~Listed(s, loc[1].students)
                <=> Cardinality(InsideWindow(s, now)) >= StudentCap)

\* C8: rate limit -- (second half) a student that was left out is returned
\* as available again as soon as the oldest of the submissions that were
\* inside the window is 24 hours old or older
C8_AvailableWhenOldestAgesOut ==
    [][\A s \in 1..RateStudents :
          (/\ loc[1].at # NoTime
           /\ loc'[1].at = now
           /\ ~Listed(s, loc[1].students)
           /\ OldestInside(s, loc[1].at) + WindowSeconds <= now)
          => Listed(s, loc'[1].students)]_vars

\* C9: in every state of the durable queue an item with status completed
\* has report_downloaded = true
C9_CompletedImpliesDownloaded ==
    \A i \in 1..Len(queue) :
        queue[i].status = "completed" => queue[i].report_downloaded

\* a completed item is in the durable queue
C9_Witness ==
    \E i \in 1..Len(queue) :
        queue[i].status = "completed" /\ queue[i].report_downloaded

\* the behaviour has left the range the bounds cover: failure_count is at
\* MaxFailureCount, or the rotation has passed the last assignment
OutOfRange ==
    \/ processor_state.failure_count >= MaxFailureCount
    \/ get_current_assignment(student_tracking, current_assignment, now)
           \notin Assignments

\* a submission is younger than 2 minutes: its age class can still change
StillRecent == recent_submissions_of(queue) # <<>>

\* C10: processor loop termination -- whatever the queue holds and the site
\* does (enqueues are finitely many), the chain of cleanup_if_idle re-checks
\* ends: the worker is idle again and again, unless the behaviour has left
\* the modelled range or a submission is still younger than 2 minutes
C10_ProcessorIdleAgain ==
    []<>(pc[1] = "idle" \/ OutOfRange \/ StillRecent)

\* C11: poller success condition -- wait_for_similarity_scores returns True
\* only if, at the moment it returns, every item of the batch passed to it
\* has a similarity score
C11_TrueOnlyIfAllScored ==
    [][\A t \in Threads :
          (pc[t] = "poll" /\ loc'[t].scores_ready = "true")
              => \A i \in 1..Len(work'[t]) : work'[t][i].similarity_score]_vars

\* the persisted status of the item with this id is st
DurableStatus(q, id, st) == \E k \in 1..Len(q) : q[k].id = id /\ q[k].status = st

\* C12: poller timeout -- when wait_for_similarity_scores returns and no
\* item of the batch obtained a score, it has made at most
\* (max_wait_minutes * 60) // 10 attempts, it returns False, and every item
\* of the batch has durable status submitted
C12_PollerTimeout ==
    [][\A t \in Threads :
          (/\ pc[t] = "poll" /\ pc'[t] # "poll"
           /\ \A i \in 1..Len(work'[t]) : ~work'[t][i].similarity_score)
          => (/\ loc'[t].scores_ready = "false"
              /\ loc[t].attempt <= max_attempts(DefaultMaxWaitMinutes)
              /\ \A i \in 1..Len(work'[t]) :
                    DurableStatus(queue', work'[t][i].id, "submitted"))]_vars

\* thread t picks its next piece of work in this step: the trigger starts
\* its pass or cleanup_if_idle takes one of its three branches
PicksWork(t) ==
    /\ pc[t] \in {"sip_check", "cl_start", "cl_check"}
    /\ pc'[t] \in {"pd_start", "dp_start"}

TerminalMessage(id) ==
    \/ <<id, "completion">> \in sent
    \/ <<id, "similarity_report">> \in sent /\ <<id, "ai_report">> \in sent
    \/ <<id, "partial_notice">> \in sent
    \/ <<id, "failure_notice">> \in sent

\* C14: never silence -- no item reaches completed or failed without a
\* terminal message (success, partial success or failure) having been sent
\* to its requester
C14_NeverSilence ==
    \A i \in 1..Len(queue) :
        queue[i].status \in {"completed", "failed"} => TerminalMessage(queue[i].id)

\* C15: enqueue -- add_to_queue appends exactly one new item with a fresh
\* id and status pending and leaves every existing item unchanged in the
\* queue it has persisted when it returns; enqueuing N files never produces
\* more than N items with status pending
C15_EnqueueAppendsOne ==
    [][\A t \in Threads :
          (pc[t] = "add_save" /\ pc'[t] = "idle")
          => (/\ Len(queue') = Len(queue) + 1
              /\ SubSeq(queue', 1, Len(queue)) = queue
              /\ queue'[Len(queue')].status = "pending"
              /\ ~HasId(queue, queue'[Len(queue')].id)
              /\ CountStatus(queue', {"pending"}) <= nextId' - 1)]_vars

\* C16: if the process dies during a queue write, the file read afterwards
\* holds either the list from before the write or the list being written
C16_CrashLeavesBeforeOrAfter ==
    \A t \in Threads :
        (pc[t] = "crashed"
         /\ loc[t].crashed_in \in {"sq_temp", "sq_remove", "sq_rename"})
        => LET d == load_queue_result(queue_file, queue)
           IN  d.has_queue /\ d.queue \in {loc[t].before, buf[t]}

Saving(w) == pc[w] \in {"sq_temp", "sq_remove", "sq_rename"}

Operating(t) ==
    \/ pc[t] = "pd_start" /\ loc[t].has_page
    \/ pc[t] \in {"pd_wb_load", "pd_wb_save", "dl", "dl_save"}

\* C19: no two threads operate the browser session at the same time
C19_SingleOwner ==
    \A t1, t2 \in Threads : t1 # t2 => ~(Operating(t1) /\ Operating(t2))

\* thread t takes a turn of the acquisition loop of
\* process_dynamic_batch_documents
AcquisitionTurn(t) ==
    /\ pc[t] = "pd_start"
    /\ loc[t].found # {}
    /\ ~loc[t].has_page
    /\ pc'[t] # pc[t] \/ loc'[t] # loc[t]

\* the items with these ids are all pending in q
AllPending(q, ids) ==
    \A id \in ids : \E i \in 1..Len(q) : q[i].id = id /\ q[i].status = "pending"

\* C20: an acquisition that finds the session owned by another, recently
\* active thread is refused and leaves the session as it is; the pass makes
\* at most MaxSessionRetries attempts and returns False exactly when the last
\* one is refused, with every item it found still pending; any other
\* acquisition error makes the pass return False at once
C20_BusyIsRefused ==
    [][\A t \in Threads :
          AcquisitionTurn(t)
          => LET r == get_session_page(browser_session, t, now)
                 returns == pc'[t] # "pd_start"
             IN  /\ loc[t].attempt <= MaxSessionRetries
                 /\ r.busy => /\ browser_session' = browser_session
                              /\ ~loc'[t].has_page
                              /\ returns <=> loc[t].attempt = MaxSessionRetries
                              /\ returns => /\ ~loc'[t].ret
                                            /\ AllPending(queue', loc[t].found)
                 /\ (~r.busy /\ ~loc'[t].has_page)
                        => returns /\ ~loc'[t].ret]_vars

\* thread t runs process_dynamic_batch_documents on a queue with pending items
UploadPassRuns(t) ==
    /\ pc[t] = "pd_start"
    /\ pc'[t] # "pd_start"
    /\ get_pending_items(load_queue) # <<>>

\* C21: a pass changes current_assignment only to one of the next MaxLookups
\* buckets, one that has an available student or no student data, with no
\* such bucket before it (the current one included); it uploads only on such
\* a bucket; and when neither the current bucket nor any of the next
\* MaxLookups qualifies, current_assignment and the queue stay as they are
\* and the pass ends
C21_BucketRotation ==
    [][\A t \in Threads :
          UploadPassRuns(t)
          => LET cur == current_assignment
                 new == current_assignment'
                 ok(b) == Usable(student_tracking, b, now)
             IN  /\ new # cur
                    => /\ new \in (cur + 1)..(cur + MaxLookups)
                       /\ ok(new)
                       /\ \A b \in cur..(new - 1) : ~ok(b)
                 /\ pc'[t] = "pd_wb_load"
                    => /\ ok(new)
                       /\ \A b \in cur..(new - 1) : ~ok(b)
                 /\ (\A b \in cur..(cur + MaxLookups) : ~ok(b))
                    => /\ new = cur
                       /\ queue' = queue
                       /\ pc'[t] \in {"sip_finish", "cl_finish"}
                       /\ ~loc'[t].ret]_vars

\* the file was uploaded on a bucket reached by rotating past three spent
\* ones
C21_Witness ==
    /\ current_assignment >= 4
    /\ \A b \in 1..3 : ~Usable(student_tracking, b, now)
    /\ queue # <<>>
    /\ queue[1].status = "submitted"
    /\ queue[1].assignment = current_assignment

\* C22: the save of remove_completed_items takes out of the queue file
\* exactly the items that are completed with report_downloaded and leaves
\* every other item in place, unchanged and in the same order
C22_RemovesOnlyCompleted ==
    [][\A t \in Threads :
          (pc[t] = "cl_rm_save" /\ pc'[t] # "cl_rm_save")
          => queue' = SelectSeq(queue, KeepItem)]_vars

\* the record of item id in q has status st
RecordHasStatus(q, id, st) ==
    \E i \in 1..Len(q) : q[i].id = id /\ q[i].status = st

\* C23: every queue write of download_reports_for_batch is for an item of
\* the batch that has a score and makes its record completed with
\* report_downloaded; an item of the batch without a score is passed over
\* and its record keeps the status submitted
C23_DispatcherCompletes ==
    [][\A t \in Threads :
          (pc[t] = "dl_save" /\ pc'[t] # "dl_save")
          => LET item == work[t][idx[t]]
             IN  /\ item.similarity_score
                 /\ \E i \in 1..Len(queue') :
                       /\ queue'[i].id = item.id
                       /\ queue'[i].status = "completed"
                       /\ queue'[i].report_downloaded
                 /\ \A k \in 1..Len(work[t]) :
                       (~work[t][k].similarity_score
                        /\ RecordHasStatus(queue, work[t][k].id, "submitted"))
                       => RecordHasStatus(queue', work[t][k].id, "submitted")]_vars

\* thread t issues the admin command c in this step
AdminCall(t, c) ==
    /\ loc'[t].admin_calls = loc[t].admin_calls + 1
    /\ loc'[t].cmd = c

\* nothing but processor_state and the caller's own record changes
OnlyProcessorStateChanges(t) ==
    /\ UNCHANGED <<queue, processing_lock, student_tracking, current_assignment,
                   now, nextId, pc, ctx, work, idx, buf, sent, queue_file,
                   temp_file, queue_lock, browser_session>>
    /\ \A u \in Threads \ {t} : loc'[u] = loc[u]

\* C24: force_stop_processor sets is_running to False and returns the value
\* it had; failure_count, last_failure_time, the processing lock, the queue
\* and every thread's position in its pass stay as they are
C24_ForceStopOnlyClearsFlag ==
    [][\A t \in Threads :
          AdminCall(t, "stop")
          => /\ ~processor_state'.is_running
             /\ loc'[t].was_running = processor_state.is_running
             /\ processor_state'.failure_count = processor_state.failure_count
             /\ processor_state'.last_failure_time
                    = processor_state.last_failure_time
             /\ OnlyProcessorStateChanges(t)]_vars

\* the admin has stopped the processor while thread 1 is inside a pass, and
\* the pass is still where it was
C24_Witness ==
    /\ loc[2].cmd = "stop"
    /\ loc[2].was_running
    /\ ~processor_state.is_running
    /\ InPass(1)

FailedPassEnds(t) ==
    /\ pc[t] \in {"sip_finish", "cl_finish"}
    /\ pc'[t] # pc[t]
    /\ ~loc[t].ret

C26_TitlesDistinct ==
    /\ \A i \in 1..Len(queue) :
          queue[i].submission_title # NoTitle
          => TitleLength(queue[i].submission_title) <= TitleLimit
    /\ \A i, j \in 1..Len(queue) :
          (/\ queue[i].submission_title # NoTitle
           /\ queue[j].submission_title # NoTitle
           /\ \/ queue[i].user_id # queue[j].user_id
              \/ queue[i].timestamp # queue[j].timestamp)
          => queue[i].submission_title # queue[j].submission_title

\* cleanup_if_idle of thread t decides in this step what to do next
TakesBranch(t) ==
    /\ pc[t] \in {"cl_start", "cl_check"}
    /\ pc'[t] \in {"pd_start", "dp_start", "idle"}

IsRecentSubmitted(item) == IsAwaitingReport(item) /\ IsRecent(item)

IsOldSubmitted(item) == IsAwaitingReport(item) /\ IsOld(item)

\* C27: cleanup_if_idle takes exactly one branch, in this order: the report
\* download for the items submitted less than 2 minutes ago if there is any
\* such item; else the upload if any item is pending; else the poll for the
\* older submitted items if there is any; else it returns idle; and after
\* each of the first three it re-checks the queue
C27_BranchOrder ==
    [][\A t \in Threads :
          /\ TakesBranch(t) =>
                IF SelectSeq(queue, IsRecentSubmitted) # <<>>
                THEN pc'[t] = "dp_start" /\ ctx'[t] = "cl_recent"
                ELSE IF SelectSeq(queue, IsPending) # <<>>
                THEN pc'[t] = "pd_start" /\ ctx'[t] = "cl_upload"
                ELSE IF SelectSeq(queue, IsOldSubmitted) # <<>>
                THEN pc'[t] = "dp_start" /\ ctx'[t] = "cl_old"
                ELSE pc'[t] = "idle"
          /\ (pc[t] = "cl_finish" /\ pc'[t] # "cl_finish")
                => pc'[t] = "cl_start"]_vars

\* submit_batch of thread t returns success in this step
BatchSubmitted(t) ==
    /\ pc[t] = "pd_start"
    /\ pc'[t] = "pd_wb_load"

\* the identities submit_batch may use, in the order of the dropdown, for
\* the roster of n students the page lists
IdentitiesOf(a, n) ==
    get_available_students(
        save_students_to_tracking(student_tracking, a, PageStudents(n)),
        a, now).list

Attached(item) == item.submission_title # NoTitle

\* C28: the batch is the first k pending items of the queue in enqueue
\* order, the item at position i is given identity i of the available list
\* (per-slot loop and top-up loop alike), and no item is attached while an
\* earlier item of the batch was left out; stated for transactions in which
\* no field filling fails
C28_QueueOrderInBatch ==
    [][\A t \in Threads :
          (/\ BatchSubmitted(t)
           /\ loc'[t].site.fails = {}
           /\ loc'[t].site.skips = {})
          => LET batch == work'[t]
                 av == IdentitiesOf(current_assignment', loc'[t].site.n)
             IN  /\ IdsOf(batch)
                       = IdsOf(Prefix(SelectSeq(queue, IsPending), Len(batch)))
                 /\ \A i \in 1..Len(batch) :
                       Attached(batch[i])
                       => /\ i <= Len(av)
                          /\ batch[i].student_id = av[i]
                 /\ \A i, j \in 1..Len(batch) :
                       (i < j /\ Attached(batch[j])) => Attached(batch[i])]_vars

\* the write-back of thread t saves the queue in this step
WriteBackSaves(t) ==
    /\ pc[t] = "pd_wb_save"
    /\ pc'[t] # "pd_wb_save"

\* q holds a record for the batch item with the fields chosen in the batch
CarriesBatchFields(q, item) ==
    \E i \in 1..Len(q) :
        /\ q[i].id = item.id
        /\ q[i].status = "submitted"
        /\ q[i].submitted_at # NoTime
        /\ q[i].student_id = item.student_id /\ q[i].student_id # NoStudent
        /\ q[i].submission_title = item.submission_title
        /\ q[i].submission_title # NoTitle
        /\ q[i].assignment = item.assignment /\ q[i].assignment \in Assignments

\* C29: when the write-back after a successful submit_batch has saved, the
\* queue file holds, for every item of the batch that was attached to a slot,
\* a record with the student, title and assignment chosen in the batch,
\* status submitted and a submitted_at time, and every record of an item
\* outside the batch is as it was
C29_WriteBackCarriesFields ==
    [][\A t \in Threads :
          WriteBackSaves(t)
          => /\ \A k \in 1..Len(work[t]) :
                   Attached(work[t][k]) => CarriesBatchFields(queue', work[t][k])
             /\ \A i \in 1..Len(queue) :
                   queue[i].id \notin IdsOf(work[t])
                   => \E j \in 1..Len(queue') : queue'[j] = queue[i]]_vars

\* a pass of thread t that was to upload ends in this step
UploadPassEnds(t) ==
    /\ pc[t] \in {"sip_finish", "cl_finish"}
    /\ pc'[t] # pc[t]
    /\ IsUpload(ctx[t])

\* a report-download pass of thread t ends in this step
DownloadPassEnds(t) ==
    /\ pc[t] = "cl_finish"
    /\ pc'[t] # pc[t]
    /\ ~IsUpload(ctx[t])

\* C30: a failed upload pass, whether started by the trigger or by
\* cleanup_if_idle, leaves failure_count one higher than it was and records
\* the time; a successful upload pass leaves it 0; a report-download pass
\* leaves count and time as they were
C30_FailureCounting ==
    [][\A t \in Threads :
          /\ UploadPassEnds(t)
             => IF loc[t].ret
                THEN processor_state'.failure_count = 0
                ELSE /\ processor_state'.failure_count
                           = processor_state.failure_count + 1
                     /\ processor_state'.last_failure_time = now
          /\ DownloadPassEnds(t)
             => /\ processor_state'.failure_count = processor_state.failure_count
                /\ processor_state'.last_failure_time
                       = processor_state.last_failure_time]_vars

\* download_reports_for_batch of thread t sends the reports of a batch item
\* in this step
SendsReports(t) ==
    /\ pc[t] = "dl"
    /\ pc'[t] = "dl_save"
    /\ Attached(work[t][idx'[t]])

\* C31: every send is attempted at most SendMaxRetries times with
\* SendRetryDelay seconds between two attempts; whatever the sends do, the
\* item's queue update follows, the loop goes on with the next item and the
\* pass returns True
C31_UnreachableUserDoesNotAbort ==
    [][\A t \in Threads :
          /\ SendsReports(t)
             => \A m \in MessageKinds :
                   /\ loc'[t].send_tries[m] <= SendMaxRetries
                   /\ loc'[t].send_tries[m] > 0
                      => loc'[t].send_waited[m]
                            = SendRetryDelay * (loc'[t].send_tries[m] - 1)
                   /\ <<work[t][idx'[t]].id, m>> \in sent'
                      => loc'[t].send_tries[m] > 0
          /\ (pc[t] = "dl_save" /\ pc'[t] # "dl_save")
             => pc'[t] = "dl" /\ idx'[t] = idx[t] + 1
          /\ (pc[t] = "dl" /\ pc'[t] \notin {"dl", "dl_save"})
             => loc'[t].ret]_vars

\* no send for the first requester got through in three attempts each, and
\* the second requester has received a report
C31_Witness ==
    /\ \A m \in MessageKinds : <<1, m>> \notin sent
    /\ \E i \in 1..Len(queue) : queue[i].id = 1 /\ queue[i].status = "completed"
    /\ \E m \in MessageKinds : <<2, m>> \in sent

\* the update_queue_item call of thread t saves the queue in this step
UpdateSaves(t) ==
    /\ pc[t] = "dl_save"
    /\ pc'[t] # "dl_save"

\* q2 is q with the fields of `updates` replaced in the item with that id
\* and nothing else changed
OnlyNamedFieldsChange(q, q2, id, updates) ==
    /\ Len(q2) = Len(q)
    /\ \A i \in 1..Len(q) :
          IF q[i].id = id
          THEN \A f \in DOMAIN q[i] :
                  q2[i][f] = IF f \in DOMAIN updates THEN updates[f] ELSE q[i][f]
          ELSE q2[i] = q[i]

\* C32: when update_queue_item(item_id, updates) has saved, the queue file
\* differs from what it held before the save in the named fields of the
\* item with that id only; all other items, fields and the order are as
\* they were
C32_UpdateTouchesOneItem ==
    [][\A t \in Threads :
          UpdateSaves(t)
          => OnlyNamedFieldsChange(queue, queue', work[t][idx[t]].id,
                                   ItemUpdates(work[t][idx[t]]))]_vars

\* C33: no enqueued item is lost -- an item of the queue file stays in it
\* in every step, except that remove_completed_items may take out an item
\* that is completed with its reports downloaded
C33_NoItemLost ==
    [][\A i \in 1..Len(queue) :
          HasId(queue', queue[i].id) \/ IsRemovable(queue[i])]_vars

\* the queue holds item id with the given status
HasStatus(id, st) == \E i \in 1..Len(queue) : queue[i].id = id /\ queue[i].status = st

\* C34: an item that a pass left submitted without a score is eventually
\* marked completed by a later pass, the site staying reachable
C34_SubmittedEventuallyCompleted ==
    \A id \in 1..RecheckItems :
        HasStatus(id, "submitted") ~> HasStatus(id, "completed")

\* the recorded submissions of student s in bucket a whose timestamps lie in
\* the 24 hours that start at time from
RecordedFrom(a, s, from) ==
    {k \in 1..Len(student_tracking[a].submissions[s]) :
        /\ student_tracking[a].submissions[s][k].timestamp >= from
        /\ student_tracking[a].submissions[s][k].timestamp < from + WindowSeconds}

\* C35: global quota safety -- no identity has more than 3 recorded
\* submissions inside any single 24-hour window (a window that holds the
\* most submissions starts at one of them)
C35_QuotaSafety ==
    \A a \in DOMAIN student_tracking : \A s \in StudentIds :
        \A k \in 1..Len(student_tracking[a].submissions[s]) :
            Cardinality(RecordedFrom(a, s,
                student_tracking[a].submissions[s][k].timestamp)) <= StudentCap

\* the messages that carry a report document
ReportDocuments == {"similarity_report", "ai_report"}

\* C36: completed means delivered -- an item is marked completed only if at
\* least one report document was successfully sent to its requester
C36_CompletedMeansDelivered ==
    \A i \in 1..Len(queue) :
        queue[i].status = "completed" =>
            \E m \in ReportDocuments : <<queue[i].id, m>> \in sent

\* thread t's submit_batch transaction takes place in this step
SubmitBatchEnds(t) == pc[t] = "pd_start" /\ pc'[t] # "pd_start"

\* the positions of student s's list in bucket a that this step appends
GainedSubmissions(a, s) ==
    (Len(student_tracking[a].submissions[s]) + 1)
        ..Len(student_tracking'[a].submissions[s])

\* C37: quota is consumed only by real submissions -- a submission is
\* recorded against an identity only for an item that ends the transaction
\* submitted, and when submit_batch returns False no identity has gained a
\* recorded submission
C37_QuotaOnlyForSubmitted ==
    [][\A t \in Threads : SubmitBatchEnds(t) =>
          \A a \in Assignments : \A s \in StudentIds :
              \A k \in GainedSubmissions(a, s) :
                  /\ pc'[t] = "pd_wb_load"
                  /\ \E i \in 1..Len(work'[t]) :
                        /\ work'[t][i].status = "submitted"
                        /\ work'[t][i].submission_title =
                              student_tracking'[a].submissions[s][k].title]_vars

\* thread u has force-stopped the processor while it was running and has
\* triggered nothing since
StoppedBy(u) ==
    /\ loc[u].cmd = "stop"
    /\ loc[u].was_running
    /\ pc[u] = "idle"
    /\ loc[u].sip = "none"

\* thread t starts a pass (upload or report download) in this step
PassStarts(t) == ~InPass(t) /\ InPass(t)'

\* C38: after force_stop_processor was called during a run, the processor
\* starts no further pass, from cleanup_if_idle included, until a new
\* trigger arrives
C38_NoPassAfterForceStop ==
    [][\A t \in Threads : \A u \in Threads \ {t} :
          StoppedBy(u) => ~PassStarts(t)]_vars

\* thread t is inside the outer try block of start_immediate_processing
InsideLockedBlock(t) == pc[t] = "sip_check" \/ ctx[t] = "sip"

\* C39: every start_immediate_processing call that acquires
\* _processing_lock releases it before it returns, on every path -- the lock
\* is held only by a thread that is inside the try block, never by one that
\* has gone on to cleanup_if_idle or has returned
C39_LockReleased ==
    /\ processing_lock \in Threads \cup {NoThread}
    /\ \A t \in Threads : processing_lock = t => InsideLockedBlock(t)

\* a call that acquired the lock and ran a pass that failed has left the try
\* block and is in cleanup_if_idle; the lock is free
C39_Witness ==
    \E t \in Threads :
        /\ pc[t] = "cl_start"
        /\ loc[t].sip = "ran"
        /\ processor_state.failure_count > 0
        /\ processing_lock = NoThread

\* C40: the running flag is truthful -- whenever a thread is executing a
\* batch-processing pass (upload or report download), no force-stop having
\* been issued, processor_state['is_running'] is True
C40_RunningFlagTruthful ==
    (\E t \in Threads : InPass(t)) => processor_state.is_running

====
